---- MODULE Spec2Model ----
(***************************************************************************)
(* State-machine model of the MSA task tracker backend (FastAPI +          *)
(* SQLAlchemy): the task status lifecycle and its authorization check      *)
(* (routers/tasks.py), the dashboard visibility filter                     *)
(* (routers/dashboard.py) and the single-active-semester mutation path     *)
(* (routers/semesters.py, routers/export.py).                              *)
(*                                                                         *)
(* The database tables are the variables; every request handler is one     *)
(* action that runs from its first query to its commit (or to the          *)
(* HTTPException it raises, which leaves the tables as they were).         *)
(***************************************************************************)
EXTENDS Integers, Sequences, FiniteSets, TLC

----------------------------------------------------------------------------
(* Bounds of the model *)

MaxTasks == 1          \* task ids 1..MaxTasks can be allocated
MaxPool == 1           \* longest assigned_user_ids list of a request
MaxAudit == 2          \* audit rows a behaviour of Spec writes
MaxAuditUpdate == 1    \* audit rows a behaviour of SpecUpdate writes
MaxReasonLen == 1      \* longest cannot-do reason, in characters
MaxAlerts == 1         \* background admin alerts waiting to run at once
MaxSemesters == 2      \* semester ids 1..MaxSemesters can be allocated
MaxBatch == 2          \* longest semesters list of one import request

----------------------------------------------------------------------------
(* Values *)

\* Python None in a nullable integer column or an Optional[int] field.
\* Primary keys start at 1, so 0 is also the only falsy id.
None == 0
\* A field the request body does not carry (pydantic exclude_unset=True).
Unset == -1

PENDING == "PENDING"
DONE == "DONE"
CANNOT_DO == "CANNOT_DO"
TaskStatus == {PENDING, DONE, CANNOT_DO}

ADMIN == "ADMIN"
MEMBER == "MEMBER"

\* A table slot that holds no row.
NoRow == [exists |-> FALSE]

\* Text values are sequences of characters; NoText is a NULL text column.
Chars == {" ", "a"}
NoText == <<"NULL">>
\* A text field the request body does not carry.
MissingText == <<"MISSING">>
Texts == UNION {[1..n -> Chars] : n \in 0..MaxReasonLen}

----------------------------------------------------------------------------
(* The users and teams tables.  The claims vary tasks, rosters and         *)
(* semesters, not accounts, so the accounts are the ones the test suite    *)
(* creates: an admin, a member of team 1 and a member of no team.  Team 2  *)
(* exists and has no member.                                               *)

UserRows ==
    { [id |-> 1, role |-> ADMIN,  team_id |-> None],
      [id |-> 2, role |-> MEMBER, team_id |-> 1],
      [id |-> 3, role |-> MEMBER, team_id |-> None] }
UserIds == {u.id : u \in UserRows}
TeamIds == {1, 2}
User(id) == CHOOSE u \in UserRows : u.id = id

\* Names are sequences of characters.
FixtureTeams ==
    [i \in TeamIds |-> IF i = 1 THEN [exists |-> TRUE, name |-> <<"a", "b">>]
                       ELSE [exists |-> TRUE, name |-> <<"c">>]]

TaskIds == 1..MaxTasks
SemIds == 1..MaxSemesters
\* The weeks and events the specifications start from.
WeekIds == {1, 2}
EventIds == {1, 2}

----------------------------------------------------------------------------
VARIABLES
    semesters,          \* semesters table: id -> [exists, name, is_active]
    roster,             \* roster_members table: set of <<semester_id, user_id>>
    weeks,              \* weeks table: id -> [exists, semester_id, week_number]
    events,             \* events table: id -> [exists, week_id]
    tasks,              \* tasks table: id -> task row
    task_assignments,   \* task_assignments table: set of <<task_id, user_id>>
    audit,              \* audit_logs table, in insertion order
    alerts,             \* BackgroundTasks queue of send_admin_alert calls
    response,           \* the response to the last request
    sessions,           \* requests and scheduler runs in progress: id -> its
                        \* position and the objects its db session holds
    outbox,             \* calls of send_reminder, in order
    now,                \* the clock, in days
    teams,              \* teams table: id -> [exists, name]
    task_comments,      \* task_comments table: id -> [exists, task_id, user_id]
    event_templates     \* event_templates table: id -> [exists, name, tasks]

vars == <<semesters, roster, weeks, events, tasks, task_assignments, audit,
          alerts, response, sessions, outbox, now, teams,
                   task_comments, event_templates>>
\* What the handlers of one request at a time leave alone.
restVars == <<sessions, outbox, now, teams,
                   task_comments, event_templates>>
semVars == <<semesters, roster, weeks, events>>
taskVars == <<tasks, task_assignments>>

----------------------------------------------------------------------------
(* Helpers over the tables *)

Exists(table, id) == id \in DOMAIN table /\ table[id].exists

\* The id the database gives the next row of a table: one past the largest
\* id in use (SQLite INTEGER PRIMARY KEY).
NextId(table) ==
    LET used == {i \in DOMAIN table : table[i].exists}
    IN  IF used = {} THEN 1
        ELSE (CHOOSE m \in used : \A i \in used : i <= m) + 1

\* The rows of a query without ORDER BY come in rowid order.
RECURSIVE InIdOrder(_)
InIdOrder(ids) ==
    IF ids = {} THEN <<>>
    ELSE LET m == CHOOSE i \in ids : \A j \in ids : i <= j
         IN  <<m>> \o InIdOrder(ids \ {m})

SeqToSet(s) == {s[i] : i \in 1..Len(s)}
HasDuplicates(s) == \E i, j \in 1..Len(s) : i /= j /\ s[i] = s[j]

\* The assigned_user_ids lists a request can carry.
PoolLists == UNION {[1..n -> UserIds] : n \in 0..MaxPool}

Response(op, code) == [op |-> op, code |-> code]

\* services/audit.py log_action: adds one AuditLog row to the session; the
\* caller's commit persists it.
log_action(log, action, entity_id, user_id) ==
    Append(log, [action |-> action, entity_type |-> "task",
                 entity_id |-> entity_id, user_id |-> user_id])

----------------------------------------------------------------------------
(* routers/tasks.py *)

\* A mutant of can_modify_task: the team branch without its
\* "task.assigned_team_id and" guard, so None == None grants access.
can_modify_task_no_team_guard(task_id, user_id) ==
    LET task == tasks[task_id]
        user == User(user_id)
    IN  \/ user.role = ADMIN
        \/ task.assigned_to = user.id
        \/ user.team_id = task.assigned_team_id
        \/ <<task_id, user_id>> \in task_assignments

can_modify_task(task_id, user_id) ==
    LET task == tasks[task_id]
        user == User(user_id)
    IN  IF user.role = ADMIN THEN TRUE
        ELSE IF task.assigned_to = user.id THEN TRUE
        ELSE IF task.assigned_team_id /= None
                /\ user.team_id = task.assigned_team_id THEN TRUE
        ELSE IF \E a \in task_assignments : a[1] = task_id /\ a[2] = user.id
             THEN TRUE
        ELSE FALSE

\* middleware/auth.py get_admin_user, the dependency of every admin-only
\* endpoint: a caller who is not an admin gets 403 before the handler runs.
get_admin_user_rejects(user_id, op) ==
    /\ User(user_id).role /= ADMIN
    /\ response' = Response(op, 403)
    /\ UNCHANGED <<semVars, taskVars, audit, alerts>>

\* POST /api/events/{event_id}/tasks (admin only)
create_task(user_id, event_id, assigned_to, assigned_team_id, assigned_user_ids) ==
    /\ User(user_id).role = ADMIN
    /\ UNCHANGED <<semVars, audit, alerts>>
    /\ IF ~Exists(events, event_id)
       THEN /\ response' = Response("create_task", 404)
            /\ UNCHANGED taskVars
       ELSE IF HasDuplicates(assigned_user_ids)
       THEN \* uq_task_user fails the flush at commit; the session is rolled back
            /\ response' = Response("create_task", 500)
            /\ UNCHANGED taskVars
       ELSE LET id == NextId(tasks)
            IN  /\ id \in TaskIds
                /\ tasks' = [tasks EXCEPT ![id] =
                       [exists |-> TRUE, event_id |-> event_id,
                        status |-> PENDING,
                        assigned_to |-> assigned_to,
                        assigned_team_id |-> assigned_team_id,
                        completed_by |-> None,
                        cannot_do_reason |-> NoText,
                        auto_reminder_sent |-> FALSE]]
                /\ task_assignments' = task_assignments \cup
                       {<<id, u>> : u \in SeqToSet(assigned_user_ids)}
                /\ response' = Response("create_task", 200)

\* A mutant of assignment_changed: any assigned_to or assigned_team_id key in
\* the request counts as a change, equal to the stored value or not.
assignment_changed_any_key(task, assigned_to, assigned_team_id) ==
    assigned_to /= Unset \/ assigned_team_id /= Unset

\* update_task, lines 136-140: does the request change the single-user or
\* the team channel?
assignment_changed(task, assigned_to, assigned_team_id) ==
    \/ assigned_to /= Unset /\ assigned_to /= task.assigned_to
    \/ assigned_team_id /= Unset /\ assigned_team_id /= task.assigned_team_id

\* PUT /api/tasks/{task_id} (admin only).  assigned_user_ids = <<Unset>> stands for a body
\* without the key (or with null): the pool is left alone.
update_task(user_id, task_id, assigned_to, assigned_team_id, assigned_user_ids) ==
    /\ User(user_id).role = ADMIN
    /\ UNCHANGED <<semVars, audit, alerts>>
    /\ IF ~Exists(tasks, task_id)
       THEN /\ response' = Response("update_task", 404)
            /\ UNCHANGED taskVars
       ELSE IF assigned_user_ids /= <<Unset>> /\ HasDuplicates(assigned_user_ids)
       THEN /\ response' = Response("update_task", 500)
            /\ UNCHANGED taskVars
       ELSE LET task == tasks[task_id]
                reset == assignment_changed(task, assigned_to, assigned_team_id)
                         /\ task.status /= PENDING
                t1 == IF reset
                      THEN [task EXCEPT !.status = PENDING,
                                        !.cannot_do_reason = NoText,
                                        !.completed_by = None]
                      ELSE task
                t2 == IF assigned_to /= Unset
                      THEN [t1 EXCEPT !.assigned_to = assigned_to] ELSE t1
                t3 == IF assigned_team_id /= Unset
                      THEN [t2 EXCEPT !.assigned_team_id = assigned_team_id]
                      ELSE t2
            IN  /\ tasks' = [tasks EXCEPT ![task_id] = t3]
                /\ task_assignments' =
                       IF assigned_user_ids = <<Unset>> THEN task_assignments
                       ELSE {a \in task_assignments : a[1] /= task_id} \cup
                            {<<task_id, u>> : u \in SeqToSet(assigned_user_ids)}
                /\ response' = Response("update_task", 200)

\* DELETE /api/tasks/{task_id} (admin only); the pool rows go with the task (cascade).
delete_task(user_id, task_id) ==
    /\ User(user_id).role = ADMIN
    /\ UNCHANGED <<semVars, audit, alerts>>
    /\ IF ~Exists(tasks, task_id)
       THEN /\ response' = Response("delete_task", 404)
            /\ UNCHANGED taskVars
       ELSE /\ tasks' = [tasks EXCEPT ![task_id] = NoRow]
            /\ task_assignments' = {a \in task_assignments : a[1] /= task_id}
            /\ response' = Response("delete_task", 200)

\* A mutant of mark_task_done: a task already DONE is answered without a
\* second write or audit row.
mark_task_done_once(user_id, task_id) ==
    /\ UNCHANGED <<semVars, task_assignments, alerts>>
    /\ IF ~Exists(tasks, task_id)
       THEN /\ response' = Response("mark_task_done", 404)
            /\ UNCHANGED <<tasks, audit>>
       ELSE IF ~can_modify_task(task_id, user_id)
       THEN /\ response' = Response("mark_task_done", 403)
            /\ UNCHANGED <<tasks, audit>>
       ELSE IF tasks[task_id].status = DONE
       THEN /\ response' = Response("mark_task_done", 200)
            /\ UNCHANGED <<tasks, audit>>
       ELSE /\ tasks' = [tasks EXCEPT ![task_id].status = DONE,
                                      ![task_id].completed_by = user_id]
            /\ audit' = log_action(audit, "TASK_DONE", task_id, user_id)
            /\ response' = Response("mark_task_done", 200)

\* PATCH /api/tasks/{task_id}/done
mark_task_done(user_id, task_id) ==
    /\ UNCHANGED <<semVars, task_assignments, alerts>>
    /\ IF ~Exists(tasks, task_id)
       THEN /\ response' = Response("mark_task_done", 404)
            /\ UNCHANGED <<tasks, audit>>
       ELSE IF ~can_modify_task(task_id, user_id)
       THEN /\ response' = Response("mark_task_done", 403)
            /\ UNCHANGED <<tasks, audit>>
       ELSE /\ tasks' = [tasks EXCEPT ![task_id].status = DONE,
                                      ![task_id].completed_by = user_id]
            /\ audit' = log_action(audit, "TASK_DONE", task_id, user_id)
            /\ response' = Response("mark_task_done", 200)

\* schemas/task.py TaskCannotDo: the body is valid when it carries a reason
\* that is a string; nothing is asked of the string itself.
TaskCannotDo_valid(reason) == reason /= MissingText

\* PATCH /api/tasks/{task_id}/cannot-do.  reason = MissingText stands for a body
\* without the key.  The body is validated before the handler runs.
mark_task_cannot_do(user_id, task_id, reason) ==
    /\ UNCHANGED <<semVars, task_assignments>>
    /\ IF ~TaskCannotDo_valid(reason)
       THEN /\ response' = Response("mark_task_cannot_do", 422)
            /\ UNCHANGED <<tasks, audit, alerts>>
       ELSE IF ~Exists(tasks, task_id)
       THEN /\ response' = Response("mark_task_cannot_do", 404)
            /\ UNCHANGED <<tasks, audit, alerts>>
       ELSE IF ~can_modify_task(task_id, user_id)
       THEN /\ response' = Response("mark_task_cannot_do", 403)
            /\ UNCHANGED <<tasks, audit, alerts>>
       ELSE /\ tasks' = [tasks EXCEPT ![task_id].status = CANNOT_DO,
                                      ![task_id].cannot_do_reason = reason,
                                      ![task_id].completed_by = user_id]
            /\ audit' = log_action(audit, "TASK_CANNOT_DO", task_id, user_id)
            /\ alerts' = Append(alerts, [user |-> user_id, task |-> task_id,
                                         reason |-> reason])
            /\ response' = Response("mark_task_cannot_do", 200)

\* A mutant of undo_task_status: the audit row is added before the
\* authorization check.
undo_task_status_logs_first(user_id, task_id) ==
    /\ UNCHANGED <<semVars, task_assignments, alerts>>
    /\ IF ~Exists(tasks, task_id)
       THEN /\ response' = Response("undo_task_status", 404)
            /\ UNCHANGED <<tasks, audit>>
       ELSE IF ~can_modify_task(task_id, user_id)
       THEN /\ response' = Response("undo_task_status", 403)
            /\ audit' = log_action(audit, "TASK_UNDO", task_id, user_id)
            /\ UNCHANGED tasks
       ELSE /\ tasks' = [tasks EXCEPT ![task_id].status = PENDING,
                                      ![task_id].cannot_do_reason = NoText,
                                      ![task_id].completed_by = None]
            /\ audit' = log_action(audit, "TASK_UNDO", task_id, user_id)
            /\ response' = Response("undo_task_status", 200)

\* A mutant of undo_task_status: completed_by is not cleared.
undo_task_status_keeps_completer(user_id, task_id) ==
    /\ UNCHANGED <<semVars, task_assignments, alerts>>
    /\ IF ~Exists(tasks, task_id)
       THEN /\ response' = Response("undo_task_status", 404)
            /\ UNCHANGED <<tasks, audit>>
       ELSE IF ~can_modify_task(task_id, user_id)
       THEN /\ response' = Response("undo_task_status", 403)
            /\ UNCHANGED <<tasks, audit>>
       ELSE /\ tasks' = [tasks EXCEPT ![task_id].status = PENDING,
                                      ![task_id].cannot_do_reason = NoText]
            /\ audit' = log_action(audit, "TASK_UNDO", task_id, user_id)
            /\ response' = Response("undo_task_status", 200)

\* PATCH /api/tasks/{task_id}/undo
undo_task_status(user_id, task_id) ==
    /\ UNCHANGED <<semVars, task_assignments, alerts>>
    /\ IF ~Exists(tasks, task_id)
       THEN /\ response' = Response("undo_task_status", 404)
            /\ UNCHANGED <<tasks, audit>>
       ELSE IF ~can_modify_task(task_id, user_id)
       THEN /\ response' = Response("undo_task_status", 403)
            /\ UNCHANGED <<tasks, audit>>
       ELSE /\ tasks' = [tasks EXCEPT ![task_id].status = PENDING,
                                      ![task_id].cannot_do_reason = NoText,
                                      ![task_id].completed_by = None]
            /\ audit' = log_action(audit, "TASK_UNDO", task_id, user_id)
            /\ response' = Response("undo_task_status", 200)

\* services/discord.py send_admin_alert, run by BackgroundTasks after the
\* response has gone out: it reads and writes no table.
send_admin_alert ==
    /\ alerts /= <<>>
    /\ alerts' = Tail(alerts)
    /\ UNCHANGED <<semVars, taskVars, audit, response>>

----------------------------------------------------------------------------
(* services/discord.py, one await at a time.  sessions holds the process's  *)
(* settings and the background call in progress: its position, the attempt  *)
(* counter of the retry loop, the POSTs and sleeps made so far, and what it  *)
(* returned.                                                                *)

max_retries == 3       \* _send_webhook_with_retry's default, used by every caller

\* A mutant of send_webhook_with_retry_post: the except branch sleeps after
\* the last attempt as well.
send_webhook_with_retry_post_always_sleeps(outcome) ==
    /\ sessions.pc = "post"
    /\ sessions' =
           LET calls == Append(sessions.calls, [call |-> "post", outcome |-> outcome])
           IN  IF outcome = "ok"
               THEN [sessions EXCEPT !.pc = "returned", !.calls = calls,
                                     !.result = TRUE]
               ELSE [sessions EXCEPT !.pc = "sleep", !.calls = calls]
    /\ UNCHANGED <<semVars, taskVars, audit, alerts, response, outbox, now, teams,
                   task_comments, event_templates>>

\* A mutant of send_admin_alert_starts: without a webhook the task is put
\* back to PENDING.
send_admin_alert_starts_reverts ==
    /\ alerts /= <<>>
    /\ sessions.pc \in {"idle", "returned"}
    /\ alerts' = Tail(alerts)
    /\ sessions' =
           IF ~sessions.DISCORD_ENABLED
           THEN [sessions EXCEPT !.pc = "returned", !.attempt = 0,
                                 !.calls = <<>>, !.result = TRUE]
           ELSE IF ~sessions.ADMIN_WEBHOOK_URL \/ max_retries = 0
           THEN [sessions EXCEPT !.pc = "returned", !.attempt = 0,
                                 !.calls = <<>>, !.result = FALSE]
           ELSE [sessions EXCEPT !.pc = "post", !.attempt = 0,
                                 !.calls = <<>>, !.result = None]
    /\ tasks' = IF sessions.DISCORD_ENABLED /\ ~sessions.ADMIN_WEBHOOK_URL
                THEN [t \in DOMAIN tasks |->
                         IF tasks[t].exists
                         THEN [tasks[t] EXCEPT !.status = PENDING]
                         ELSE tasks[t]]
                ELSE tasks
    /\ UNCHANGED <<semVars, task_assignments, audit, response, outbox, now, teams,
                   task_comments, event_templates>>

\* send_admin_alert (lines 67-92), from the moment BackgroundTasks calls it
\* to its first await: with Discord disabled it returns True, without an
\* admin webhook False; otherwise it enters _send_webhook_with_retry, whose
\* loop body does not run when max_retries is 0.
send_admin_alert_starts ==
    /\ alerts /= <<>>
    /\ sessions.pc \in {"idle", "returned"}
    /\ alerts' = Tail(alerts)
    /\ sessions' =
           IF ~sessions.DISCORD_ENABLED
           THEN [sessions EXCEPT !.pc = "returned", !.attempt = 0,
                                 !.calls = <<>>, !.result = TRUE]
           ELSE IF ~sessions.ADMIN_WEBHOOK_URL \/ max_retries = 0
           THEN [sessions EXCEPT !.pc = "returned", !.attempt = 0,
                                 !.calls = <<>>, !.result = FALSE]
           ELSE [sessions EXCEPT !.pc = "post", !.attempt = 0,
                                 !.calls = <<>>, !.result = None]
    /\ UNCHANGED <<semVars, taskVars, audit, response, outbox, now, teams,
                   task_comments, event_templates>>

\* _send_webhook_with_retry, lines 13-30: one pass of the loop body up to
\* its return or its sleep.  The POST answers 2xx ("ok"), answers an error
\* status (raise_for_status raises HTTPStatusError) or fails in transport or
\* runs into the 10 s timeout (an httpx exception); except Exception catches
\* both kinds.
send_webhook_with_retry_post(outcome) ==
    /\ sessions.pc = "post"
    /\ sessions' =
           LET calls == Append(sessions.calls, [call |-> "post", outcome |-> outcome])
           IN  IF outcome = "ok"
               THEN [sessions EXCEPT !.pc = "returned", !.calls = calls,
                                     !.result = TRUE]
               ELSE IF sessions.attempt < max_retries - 1
               THEN [sessions EXCEPT !.pc = "sleep", !.calls = calls]
               ELSE [sessions EXCEPT !.pc = "returned", !.calls = calls,
                                     !.result = FALSE]
    /\ UNCHANGED <<semVars, taskVars, audit, alerts, response, outbox, now, teams,
                   task_comments, event_templates>>

\* Lines 24-26 and the loop's next round: asyncio.sleep(2 ** attempt)
\* returns and range() hands out the next attempt; after the last round the
\* function falls out of the loop and returns False (line 31).
send_webhook_with_retry_sleep ==
    /\ sessions.pc = "sleep"
    /\ sessions' =
           LET calls == Append(sessions.calls,
                               [call |-> "sleep", seconds |-> 2 ^ sessions.attempt])
           IN  IF sessions.attempt + 1 < max_retries
               THEN [sessions EXCEPT !.pc = "post", !.calls = calls,
                                     !.attempt = @ + 1]
               ELSE [sessions EXCEPT !.pc = "returned", !.calls = calls,
                                     !.result = FALSE]
    /\ UNCHANGED <<semVars, taskVars, audit, alerts, response, outbox, now, teams,
                   task_comments, event_templates>>

----------------------------------------------------------------------------
(* routers/semesters.py *)

SemNames == {"S1", "S2"}

ActiveSemesters(table) ==
    {i \in DOMAIN table : table[i].exists /\ table[i].is_active}

\* query(Semester).filter(is_active == True [, id != except]).update(False)
DeactivateOthers(table, except) ==
    [i \in DOMAIN table |->
        IF table[i].exists /\ table[i].is_active /\ i /= except
        THEN [table[i] EXCEPT !.is_active = FALSE]
        ELSE table[i]]

\* A mutant of create_semester: the new row is added without deactivating
\* the semesters that are active.
create_semester_keeps_others(user_id, name, is_active) ==
    /\ User(user_id).role = ADMIN
    /\ NextId(semesters) \in SemIds
    /\ semesters' = [semesters EXCEPT ![NextId(semesters)] =
                        [exists |-> TRUE, name |-> name, is_active |-> is_active]]
    /\ response' = Response("create_semester", 200)
    /\ UNCHANGED <<roster, weeks, events, taskVars, audit, alerts>>

create_semester(user_id, name, is_active) ==
    /\ User(user_id).role = ADMIN
    /\ NextId(semesters) \in SemIds
    /\ LET others == IF is_active THEN DeactivateOthers(semesters, None)
                     ELSE semesters
       IN  semesters' = [others EXCEPT ![NextId(semesters)] =
                            [exists |-> TRUE, name |-> name, is_active |-> is_active]]
    /\ response' = Response("create_semester", 200)
    /\ UNCHANGED <<roster, weeks, events, taskVars, audit, alerts>>

\* SemesterUpdate.model_dump(exclude_unset=True): the keys the request set.
UpdateDicts ==
    {[unset |-> TRUE]}
        \cup {[name |-> n] : n \in SemNames}
        \cup {[is_active |-> b] : b \in BOOLEAN}
        \cup {[name |-> n, is_active |-> b] : n \in SemNames, b \in BOOLEAN}

update_semester(user_id, semester_id, update_dict) ==
    /\ User(user_id).role = ADMIN
    /\ IF ~Exists(semesters, semester_id)
       THEN /\ response' = Response("update_semester", 404)
            /\ UNCHANGED semesters
       ELSE LET activate == /\ "is_active" \in DOMAIN update_dict
                            /\ update_dict.is_active = TRUE
                others == IF activate
                          THEN DeactivateOthers(semesters, semester_id)
                          ELSE semesters
                old == semesters[semester_id]
            IN  /\ semesters' = [others EXCEPT ![semester_id] =
                       [exists |-> TRUE,
                        name |-> IF "name" \in DOMAIN update_dict
                                 THEN update_dict.name ELSE old.name,
                        is_active |-> IF "is_active" \in DOMAIN update_dict
                                      THEN update_dict.is_active
                                      ELSE old.is_active]]
                /\ response' = Response("update_semester", 200)
    /\ UNCHANGED <<roster, weeks, events, taskVars, audit, alerts>>

\* db.delete(semester): the ORM cascade (models: cascade="all,
\* delete-orphan") removes the semester's weeks, their events, their tasks
\* and the tasks' pool rows.  roster_members has no ORM relationship, only
\* the column's ondelete="CASCADE" (models/roster.py), which SQLite applies
\* when the connection enforces foreign keys and ignores otherwise: both
\* outcomes are allowed.
delete_semester(user_id, semester_id) ==
    /\ User(user_id).role = ADMIN
    /\ IF ~Exists(semesters, semester_id)
       THEN /\ response' = Response("delete_semester", 404)
            /\ UNCHANGED <<semVars, taskVars>>
       ELSE LET goneWeeks == {w \in DOMAIN weeks : /\ weeks[w].exists
                                                   /\ weeks[w].semester_id = semester_id}
                goneEvents == {e \in DOMAIN events : /\ events[e].exists
                                                     /\ events[e].week_id \in goneWeeks}
                goneTasks == {t \in DOMAIN tasks : /\ tasks[t].exists
                                                   /\ tasks[t].event_id \in goneEvents}
            IN  /\ semesters' = [semesters EXCEPT ![semester_id] = NoRow]
                /\ weeks' = [w \in DOMAIN weeks |->
                                IF w \in goneWeeks THEN NoRow ELSE weeks[w]]
                /\ events' = [e \in DOMAIN events |->
                                IF e \in goneEvents THEN NoRow ELSE events[e]]
                /\ tasks' = [t \in DOMAIN tasks |->
                                IF t \in goneTasks THEN NoRow ELSE tasks[t]]
                /\ task_assignments' = {a \in task_assignments : a[1] \notin goneTasks}
                /\ roster' \in {roster, {r \in roster : r[1] /= semester_id}}
                /\ response' = Response("delete_semester", 200)
    /\ UNCHANGED <<audit, alerts>>

----------------------------------------------------------------------------
(* routers/semesters.py, statement by statement.  Two requests served by   *)
(* different worker processes each have their own db session on the same   *)
(* SQLite file (config.py DATABASE_URL).  A session's first write          *)
(* statement opens its transaction and takes the database's write lock,    *)
(* which it keeps until its commit; what it wrote is visible to the other  *)
(* session only after the commit; a SELECT outside a transaction reads the *)
(* committed tables.                                                       *)

RequestIds == {1, 2}
IdleSession == [pc |-> "idle"]

\* No other session has an open write transaction.
WriteLockFree(r) ==
    \A o \in RequestIds \ {r} : sessions[o].pc /= "deactivated"

DoneSession(op, code, semester_id, activates) ==
    [pc |-> "done", op |-> op, code |-> code, semester_id |-> semester_id,
     activates |-> activates]

\* create_semester, is_active = True, line 29: the bulk UPDATE.
create_semester_deactivate(r, name) ==
    /\ sessions[r].pc = "idle"
    /\ WriteLockFree(r)
    /\ NextId(semesters) \in SemIds
    /\ sessions' = [sessions EXCEPT ![r] =
           [pc |-> "deactivated", op |-> "create_semester", name |-> name,
            txn |-> DeactivateOthers(semesters, None)]]
    /\ UNCHANGED <<semVars, taskVars, audit, alerts, response, outbox, now, teams,
                   task_comments, event_templates>>

\* create_semester, lines 31-35: the INSERT and the commit.
create_semester_commit(r) ==
    /\ sessions[r].pc = "deactivated"
    /\ sessions[r].op = "create_semester"
    /\ LET txn == sessions[r].txn
           id == NextId(txn)
       IN  /\ semesters' = [txn EXCEPT ![id] =
                  [exists |-> TRUE, name |-> sessions[r].name, is_active |-> TRUE]]
           /\ sessions' = [sessions EXCEPT ![r] =
                  DoneSession("create_semester", 200, id, TRUE)]
    /\ response' = Response("create_semester", 200)
    /\ UNCHANGED <<roster, weeks, events, taskVars, audit, alerts, outbox, now, teams,
                   task_comments, event_templates>>

\* create_semester, is_active = False: its only write is the INSERT that the
\* commit flushes.
create_semester_inactive(r, name) ==
    /\ sessions[r].pc = "idle"
    /\ WriteLockFree(r)
    /\ create_semester(1, name, FALSE)
    /\ sessions' = [sessions EXCEPT ![r] =
           DoneSession("create_semester", 200, NextId(semesters), FALSE)]
    /\ UNCHANGED <<outbox, now, teams,
                   task_comments, event_templates>>

\* update_semester, lines 45-49: the SELECT of the semester and the 404.
update_semester_select(r, semester_id, update_dict) ==
    /\ sessions[r].pc = "idle"
    /\ IF ~Exists(semesters, semester_id)
       THEN /\ sessions' = [sessions EXCEPT ![r] =
                   DoneSession("update_semester", 404, semester_id, FALSE)]
            /\ response' = Response("update_semester", 404)
       ELSE /\ sessions' = [sessions EXCEPT ![r] =
                   [pc |-> "selected", op |-> "update_semester",
                    semester_id |-> semester_id, update_dict |-> update_dict,
                    semester |-> semesters[semester_id]]]
            /\ UNCHANGED response
    /\ UNCHANGED <<semVars, taskVars, audit, alerts, outbox, now, teams,
                   task_comments, event_templates>>

Activates(update_dict) ==
    "is_active" \in DOMAIN update_dict /\ update_dict.is_active = TRUE

\* update_semester, lines 52-56: the bulk UPDATE of the other semesters.
update_semester_deactivate(r) ==
    /\ sessions[r].pc = "selected"
    /\ Activates(sessions[r].update_dict)
    /\ WriteLockFree(r)
    /\ sessions' = [sessions EXCEPT ![r] =
           [pc |-> "deactivated", op |-> "update_semester",
            semester_id |-> sessions[r].semester_id,
            update_dict |-> sessions[r].update_dict,
            semester |-> sessions[r].semester,
            txn |-> DeactivateOthers(semesters, sessions[r].semester_id)]]
    /\ UNCHANGED <<semVars, taskVars, audit, alerts, response, outbox, now, teams,
                   task_comments, event_templates>>

\* update_semester, lines 58-61: setattr on the loaded object, then the
\* flush of the commit.  The unit of work writes the columns whose new
\* value differs from the value the object was loaded with; a key set to
\* the loaded value produces no UPDATE, whatever the row holds by now.
FlushedRow(row, loaded, update_dict) ==
    [exists |-> TRUE,
     name |-> IF "name" \in DOMAIN update_dict /\ update_dict.name /= loaded.name
              THEN update_dict.name ELSE row.name,
     is_active |-> IF /\ "is_active" \in DOMAIN update_dict
                      /\ update_dict.is_active /= loaded.is_active
                   THEN update_dict.is_active ELSE row.is_active]

update_semester_commit(r) ==
    /\ sessions[r].pc \in {"selected", "deactivated"}
    /\ sessions[r].op = "update_semester"
    /\ \/ sessions[r].pc = "deactivated"
       \/ /\ sessions[r].pc = "selected"
          /\ ~Activates(sessions[r].update_dict)
          /\ WriteLockFree(r)
    /\ LET id == sessions[r].semester_id
           table == IF sessions[r].pc = "deactivated"
                    THEN sessions[r].txn ELSE semesters
       IN  /\ semesters' = [table EXCEPT ![id] =
                  FlushedRow(table[id], sessions[r].semester,
                             sessions[r].update_dict)]
           /\ sessions' = [sessions EXCEPT ![r] =
                  DoneSession("update_semester", 200, id,
                              Activates(sessions[r].update_dict))]
    /\ response' = Response("update_semester", 200)
    /\ UNCHANGED <<roster, weeks, events, taskVars, audit, alerts, outbox, now, teams,
                   task_comments, event_templates>>

\* sqlite3.OperationalError "database is locked": a session that needs the
\* write lock while the other one holds it gives up when its busy timeout
\* runs out; the request answers 500 and has written nothing.
database_is_locked(r, op) ==
    /\ ~WriteLockFree(r)
    /\ \/ sessions[r].pc = "idle" /\ op = "create_semester"
       \/ sessions[r].pc = "selected" /\ op = sessions[r].op
    /\ sessions' = [sessions EXCEPT ![r] =
           DoneSession(op, 500,
                       IF sessions[r].pc = "selected"
                       THEN sessions[r].semester_id ELSE None,
                       FALSE)]
    /\ response' = Response(op, 500)
    /\ UNCHANGED <<semVars, taskVars, audit, alerts, outbox, now, teams,
                   task_comments, event_templates>>

----------------------------------------------------------------------------
(* routers/export.py *)

\* The semesters an import request can list: a name, the is_active flag of
\* a semester exported while it was active, two roster usernames (resolved to user ids: user 2, and
\* None for a username no user has) and one week.  The week's dates parse or
\* do not (datetime.fromisoformat raises); it lists at most one event, whose
\* datetime parses or does not; the event lists at most one task, whose
\* task_type is a member of TaskType or not (TaskType[...] raises KeyError)
\* and which names user 2 in its pool.
ImportTaskLists ==
    {<<>>, <<[task_type_ok |-> TRUE, assigned_pool_usernames |-> <<2>>]>>,
           <<[task_type_ok |-> FALSE, assigned_pool_usernames |-> <<2>>]>>}
ImportEventLists ==
    {<<>>} \cup {<<[datetime_ok |-> TRUE, tasks |-> l]>> : l \in ImportTaskLists}
           \cup {<<[datetime_ok |-> FALSE, tasks |-> <<>>]>>}
ImportWeekLists ==
    {<<[week_number |-> 1, dates_ok |-> TRUE, events |-> l]>> :
        l \in ImportEventLists}
    \cup {<<[week_number |-> 1, dates_ok |-> FALSE, events |-> <<>>]>>}
ImportSemesters ==
    [name : SemNames, is_active : {TRUE},
     roster_usernames : {<<2, None>>}, weeks : ImportWeekLists]
ImportBatches == UNION {[1..n -> ImportSemesters] : n \in 0..MaxBatch}

\* A mutant of ImportOne: the except branch keeps what the session had added
\* when the exception was raised instead of rolling it back.
ImportOne_commits_partial(db, sem_data) ==
    LET existing == \E i \in DOMAIN db.semesters :
                        /\ db.semesters[i].exists
                        /\ db.semesters[i].name = sem_data.name
        id == NextId(db.semesters)
        week_id == NextId(db.weeks)
        event_id == NextId(db.events)
        task_id == NextId(db.tasks)
        week_data == sem_data.weeks[1]
        week_ok == week_data.dates_ok
        event_ok == /\ week_ok /\ week_data.events /= <<>>
                    /\ week_data.events[1].datetime_ok
        task_ok == /\ event_ok /\ week_data.events[1].tasks /= <<>>
                   /\ week_data.events[1].tasks[1].task_type_ok
        members == SeqToSet(sem_data.roster_usernames) \ {None}
        raised == \/ ~week_ok
                  \/ week_ok /\ week_data.events /= <<>> /\ ~event_ok
                  \/ event_ok /\ week_data.events[1].tasks /= <<>> /\ ~task_ok
                  \/ HasDuplicates(SelectSeq(sem_data.roster_usernames,
                                             LAMBDA x : x /= None))
                  \/ \E x \in members : <<id, x>> \in db.roster
        pending ==
            [semesters |-> [db.semesters EXCEPT ![id] =
                               [exists |-> TRUE, name |-> sem_data.name,
                                is_active |-> FALSE]],
             roster |-> db.roster \cup {<<id, x>> : x \in members},
             weeks |-> IF week_ok
                       THEN [db.weeks EXCEPT ![week_id] =
                                [exists |-> TRUE, semester_id |-> id,
                                 week_number |-> week_data.week_number]]
                       ELSE db.weeks,
             events |-> IF event_ok
                        THEN [db.events EXCEPT ![event_id] =
                                 [exists |-> TRUE, week_id |-> week_id]]
                        ELSE db.events,
             tasks |-> IF task_ok
                       THEN [db.tasks EXCEPT ![task_id] =
                                [exists |-> TRUE, event_id |-> event_id,
                                 status |-> PENDING,
                                 assigned_to |-> None,
                                 assigned_team_id |-> None,
                                 completed_by |-> None,
                                 cannot_do_reason |-> NoText,
                                 auto_reminder_sent |-> FALSE]]
                       ELSE db.tasks,
             task_assignments |->
                 IF task_ok
                 THEN db.task_assignments \cup
                      {<<task_id, x>> :
                          x \in SeqToSet(week_data.events[1].tasks[1]
                                             .assigned_pool_usernames) \ {None}}
                 ELSE db.task_assignments,
             errors |-> db.errors]
    IN  IF existing
        THEN [db EXCEPT !.errors =
                 Append(@, [name |-> sem_data.name, error |-> "exists"])]
        ELSE IF raised
        THEN [pending EXCEPT !.errors =
                 Append(@, [name |-> sem_data.name, error |-> "raised"])]
        ELSE pending

\* One pass of import_data's loop body (export.py lines 199-299).  A
\* semester whose name exists is skipped with an entry in errors.  Otherwise
\* the semester is added and flushed, then its roster rows, its week, the
\* week's event, the event's task and the task's pool rows are added to the
\* session in this order; db.commit() at line 295 persists them together.
\* An exception anywhere in the try block (a date or datetime that does not
\* parse, an unknown task_type, uq_semester_user failing a flush) ends in
\* db.rollback(): nothing added since the last commit is kept, and errors
\* gets an entry.
ImportOne(db, sem_data) ==
    LET existing == \E i \in DOMAIN db.semesters :
                        /\ db.semesters[i].exists
                        /\ db.semesters[i].name = sem_data.name
        id == NextId(db.semesters)
        week_id == NextId(db.weeks)
        event_id == NextId(db.events)
        task_id == NextId(db.tasks)
        week_data == sem_data.weeks[1]
        week_ok == week_data.dates_ok
        event_ok == /\ week_ok /\ week_data.events /= <<>>
                    /\ week_data.events[1].datetime_ok
        task_ok == /\ event_ok /\ week_data.events[1].tasks /= <<>>
                   /\ week_data.events[1].tasks[1].task_type_ok
        members == SeqToSet(sem_data.roster_usernames) \ {None}
        raised == \/ ~week_ok
                  \/ week_ok /\ week_data.events /= <<>> /\ ~event_ok
                  \/ event_ok /\ week_data.events[1].tasks /= <<>> /\ ~task_ok
                  \/ HasDuplicates(SelectSeq(sem_data.roster_usernames,
                                             LAMBDA x : x /= None))
                  \/ \E x \in members : <<id, x>> \in db.roster
        pending ==
            [semesters |-> [db.semesters EXCEPT ![id] =
                               [exists |-> TRUE, name |-> sem_data.name,
                                is_active |-> FALSE]],
             roster |-> db.roster \cup {<<id, x>> : x \in members},
             weeks |-> IF week_ok
                       THEN [db.weeks EXCEPT ![week_id] =
                                [exists |-> TRUE, semester_id |-> id,
                                 week_number |-> week_data.week_number]]
                       ELSE db.weeks,
             events |-> IF event_ok
                        THEN [db.events EXCEPT ![event_id] =
                                 [exists |-> TRUE, week_id |-> week_id]]
                        ELSE db.events,
             tasks |-> IF task_ok
                       THEN [db.tasks EXCEPT ![task_id] =
                                [exists |-> TRUE, event_id |-> event_id,
                                 status |-> PENDING,
                                 assigned_to |-> None,
                                 assigned_team_id |-> None,
                                 completed_by |-> None,
                                 cannot_do_reason |-> NoText,
                                 auto_reminder_sent |-> FALSE]]
                       ELSE db.tasks,
             task_assignments |->
                 IF task_ok
                 THEN db.task_assignments \cup
                      {<<task_id, x>> :
                          x \in SeqToSet(week_data.events[1].tasks[1]
                                             .assigned_pool_usernames) \ {None}}
                 ELSE db.task_assignments,
             errors |-> db.errors]
    IN  IF existing
        THEN [db EXCEPT !.errors =
                 Append(@, [name |-> sem_data.name, error |-> "exists"])]
        ELSE IF raised
        THEN [db EXCEPT !.errors =
                 Append(@, [name |-> sem_data.name, error |-> "raised"])]
        ELSE pending

RECURSIVE ImportAll(_, _)
ImportAll(db, batch) ==
    IF batch = <<>> THEN db
    ELSE ImportAll(ImportOne(db, Head(batch)), Tail(batch))

RECURSIVE WeeksListed(_)
WeeksListed(batch) ==
    IF batch = <<>> THEN 0
    ELSE Len(Head(batch).weeks) + WeeksListed(Tail(batch))

\* The request is taken when every row it can add has an id in the tables'
\* id ranges.  The answer is 200 with the errors list, whatever failed.
import_data(user_id, batch) ==
    /\ User(user_id).role = ADMIN
    /\ NextId(semesters) - 1 + Len(batch) <= MaxSemesters
    /\ \A k \in 1..WeeksListed(batch) : NextId(weeks) - 1 + k \in WeekIds
    /\ \A k \in 1..Cardinality({i \in 1..Len(batch) :
                                   batch[i].weeks[1].events /= <<>>}) :
           NextId(events) - 1 + k \in EventIds
    /\ \A k \in 1..Cardinality({i \in 1..Len(batch) :
                                   /\ batch[i].weeks[1].events /= <<>>
                                   /\ batch[i].weeks[1].events[1].tasks /= <<>>}) :
           NextId(tasks) - 1 + k \in TaskIds
    /\ LET db == ImportAll([semesters |-> semesters, roster |-> roster,
                            weeks |-> weeks, events |-> events,
                            tasks |-> tasks,
                            task_assignments |-> task_assignments,
                            errors |-> <<>>], batch)
       IN  /\ semesters' = db.semesters
           /\ roster' = db.roster
           /\ weeks' = db.weeks
           /\ events' = db.events
           /\ tasks' = db.tasks
           /\ task_assignments' = db.task_assignments
           /\ response' = [op |-> "import_data", code |-> 200,
                           errors |-> db.errors]
    /\ UNCHANGED <<audit, alerts>>

----------------------------------------------------------------------------
(* routers/roster.py *)

MaxRosterList == 2     \* longest user_ids list of RosterInputLists

\* The user_ids lists an add_to_roster request carries here.
RosterLists == {<<2>>, <<3>>}
\* user_ids lists over two users and an id no user has, repeats included.
RosterInputLists == UNION {[1..n -> {2, 3, 9}] : n \in 0..MaxRosterList}

\* The autoflush setting of the sessions get_db hands out.  app/database.py
\* is not at hand: the sessions of tests/conftest.py are built with
\* autoflush=False, sessionmaker's own default is True.
Autoflush == BOOLEAN

\* The loop of add_to_roster, lines 81-100: acc is [pending, added,
\* skipped], pending the rows added to the session.  The query for an
\* existing row sees the pending rows when the session autoflushes.
RECURSIVE RosterLoop(_, _, _, _)
RosterLoop(semester_id, user_ids, autoflush, acc) ==
    IF user_ids = <<>> THEN acc
    ELSE LET user_id == Head(user_ids)
             visible == roster \cup
                        (IF autoflush THEN SeqToSet(acc.pending) ELSE {})
         IN  IF user_id \notin UserIds
             THEN RosterLoop(semester_id, Tail(user_ids), autoflush,
                             [acc EXCEPT !.skipped = @ + 1])
             ELSE IF <<semester_id, user_id>> \in visible
             THEN RosterLoop(semester_id, Tail(user_ids), autoflush,
                             [acc EXCEPT !.skipped = @ + 1])
             ELSE RosterLoop(semester_id, Tail(user_ids), autoflush,
                      [acc EXCEPT !.pending = Append(@, <<semester_id, user_id>>),
                                  !.added = @ + 1])

\* db.commit() of the rows a roster request added: uq_semester_user fails
\* the flush when a pair is there twice, and nothing is stored.
RosterCommit(op, acc) ==
    IF HasDuplicates(acc.pending)
       \/ \E i \in 1..Len(acc.pending) : acc.pending[i] \in roster
    THEN /\ response' = Response(op, 500)
         /\ UNCHANGED roster
    ELSE /\ roster' = roster \cup SeqToSet(acc.pending)
         /\ response' = [op |-> op, code |-> 200,
                         added |-> acc.added, skipped |-> acc.skipped]

\* POST /api/semesters/{semester_id}/roster (admin only).
add_to_roster(user_id, semester_id, user_ids) ==
    /\ User(user_id).role = ADMIN
    /\ IF ~Exists(semesters, semester_id)
       THEN /\ response' = Response("add_to_roster", 404)
            /\ UNCHANGED roster
       ELSE \E autoflush \in Autoflush :
                RosterCommit("add_to_roster",
                    RosterLoop(semester_id, user_ids, autoflush,
                               [pending |-> <<>>, added |-> 0, skipped |-> 0]))
    /\ UNCHANGED <<semesters, weeks, events, taskVars, audit, alerts>>

\* POST /api/semesters/{semester_id}/roster/add-all (admin only): the loop
\* over the users that are not admins.
add_all_to_roster(user_id, semester_id) ==
    /\ User(user_id).role = ADMIN
    /\ IF ~Exists(semesters, semester_id)
       THEN /\ response' = Response("add_all_to_roster", 404)
            /\ UNCHANGED roster
       ELSE \E autoflush \in Autoflush :
                RosterCommit("add_all_to_roster",
                    RosterLoop(semester_id,
                               InIdOrder({u \in UserIds : User(u).role /= ADMIN}),
                               autoflush,
                               [pending |-> <<>>, added |-> 0, skipped |-> 0]))
    /\ UNCHANGED <<semesters, weeks, events, taskVars, audit, alerts>>

remove_from_roster(user_id, semester_id, member_id) ==
    /\ User(user_id).role = ADMIN
    /\ IF <<semester_id, member_id>> \notin roster
       THEN /\ response' = Response("remove_from_roster", 404)
            /\ UNCHANGED roster
       ELSE /\ roster' = roster \ {<<semester_id, member_id>>}
            /\ response' = Response("remove_from_roster", 200)
    /\ UNCHANGED <<semesters, weeks, events, taskVars, audit, alerts>>

----------------------------------------------------------------------------
(* routers/dashboard.py *)

\* query(...).order_by(Week.week_number).all(): the rows of a set of week
\* ids as a list, smallest week_number first (rowid order among equals).
RECURSIVE OrderByWeekNumber(_)
OrderByWeekNumber(ids) ==
    IF ids = {} THEN <<>>
    ELSE LET first == CHOOSE w \in ids :
                        \A x \in ids :
                           \/ weeks[w].week_number < weeks[x].week_number
                           \/ /\ weeks[w].week_number = weeks[x].week_number
                              /\ w <= x
         IN  <<first>> \o OrderByWeekNumber(ids \ {first})

\* A mutant of TasksQuery: the team filter without the
\* "if current_user.team_id" branch.
TasksQuery_no_team_branch(event_id, user_id) ==
    LET user == User(user_id)
        ofEvent == {t \in DOMAIN tasks : tasks[t].exists /\ tasks[t].event_id = event_id}
        user_assigned_task_ids == {a[1] : a \in {x \in task_assignments : x[2] = user.id}}
    IN  IF user.role /= ADMIN
        THEN {t \in ofEvent : \/ tasks[t].assigned_to = user.id
                              \/ tasks[t].assigned_team_id = user.team_id
                              \/ t \in user_assigned_task_ids}
        ELSE ofEvent

\* The ids of the tasks get_dashboard lists for an event (lines 113-149).
TasksQuery(event_id, user_id) ==
    LET user == User(user_id)
        ofEvent == {t \in DOMAIN tasks : tasks[t].exists /\ tasks[t].event_id = event_id}
        user_assigned_task_ids == {a[1] : a \in {x \in task_assignments : x[2] = user.id}}
    IN  IF user.role /= ADMIN
        THEN IF user.team_id /= None
             THEN {t \in ofEvent : \/ tasks[t].assigned_to = user.id
                                   \/ tasks[t].assigned_team_id = user.team_id
                                   \/ /\ user_assigned_task_ids /= {}
                                      /\ t \in user_assigned_task_ids}
             ELSE IF user_assigned_task_ids /= {}
                  THEN {t \in ofEvent : \/ tasks[t].assigned_to = user.id
                                        \/ t \in user_assigned_task_ids}
                  ELSE {t \in ofEvent : tasks[t].assigned_to = user.id}
        ELSE ofEvent

\* events_data of one week: the events with tasks to show, and for an
\* admin every event.  The events carry no datetime here, so the list is
\* kept as a set.
EventsData(week_id, user_id) ==
    {[id |-> ev, tasks |-> TasksQuery(ev, user_id)] :
        ev \in {x \in DOMAIN events :
                  /\ events[x].exists
                  /\ events[x].week_id = week_id
                  /\ \/ TasksQuery(x, user_id) /= {}
                     \/ User(user_id).role = ADMIN}}

WeeksData(semester_id, user_id) ==
    LET ordered == OrderByWeekNumber({w \in DOMAIN weeks :
                                        /\ weeks[w].exists
                                        /\ weeks[w].semester_id = semester_id})
    IN  [k \in 1..Len(ordered) |->
            [id |-> ordered[k], week_number |-> weeks[ordered[k]].week_number,
             events |-> EventsData(ordered[k], user_id)]]

DashboardResponse(semester_name, semester_id, weeks_data, user_role) ==
    [op |-> "get_dashboard", code |-> 200, semester_name |-> semester_name,
     semester_id |-> semester_id, weeks |-> weeks_data, user_role |-> user_role]

\* A mutant of get_dashboard: no roster check for non-admins.
get_dashboard_no_roster_check(user_id) ==
    /\ \/ /\ ActiveSemesters(semesters) = {}
          /\ response' = DashboardResponse("NULL", None, <<>>, User(user_id).role)
       \/ \E semester \in ActiveSemesters(semesters) :
             response' = DashboardResponse(semesters[semester].name, semester,
                                           WeeksData(semester, user_id),
                                           User(user_id).role)
    /\ UNCHANGED <<semVars, taskVars, audit, alerts>>

\* query(Semester).filter(is_active == True).first() has no ORDER BY: any
\* active semester can be the row it returns.
get_dashboard(user_id) ==
    /\ \/ /\ ActiveSemesters(semesters) = {}
          /\ response' = DashboardResponse("NULL", None, <<>>, User(user_id).role)
       \/ \E semester \in ActiveSemesters(semesters) :
             IF /\ User(user_id).role /= ADMIN
                /\ <<semester, user_id>> \notin roster
             THEN response' = DashboardResponse(semesters[semester].name, semester,
                                                <<>>, User(user_id).role)
             ELSE response' = DashboardResponse(semesters[semester].name, semester,
                                                WeeksData(semester, user_id),
                                                User(user_id).role)
    /\ UNCHANGED <<semVars, taskVars, audit, alerts>>

----------------------------------------------------------------------------
(* routers/teams.py and routers/templates.py *)

MaxStubs == 2            \* most task stubs of one event template
MaxEntries == 2          \* most entries of one week template
MaxTemplateEvents == 2   \* event ids 1..MaxTemplateEvents can be allocated
MaxTemplateTasks == 3    \* task ids 1..MaxTemplateTasks can be allocated

\* SQL lower() on the characters in use.
Lower(c) == IF c = "A" THEN "a" ELSE IF c = "B" THEN "b" ELSE c
LowerName(name) == [i \in 1..Len(name) |-> Lower(name[i])]

\* SQL LIKE: "%" in the pattern stands for any run of characters and "_"
\* for any one character.
RECURSIVE Like(_, _)
Like(pattern, string) ==
    IF pattern = <<>> THEN string = <<>>
    ELSE IF Head(pattern) = "%"
    THEN \/ Like(Tail(pattern), string)
         \/ string /= <<>> /\ Like(pattern, Tail(string))
    ELSE /\ string /= <<>>
         /\ Head(pattern) = "_" \/ Head(pattern) = Head(string)
         /\ Like(Tail(pattern), Tail(string))

\* Team.name.ilike(pattern): lower(name) LIKE lower(pattern).
ilike(name, pattern) == Like(LowerName(pattern), LowerName(name))

\* str.strip() on the names in use.
RECURSIVE lstrip(_)
lstrip(name) ==
    IF name /= <<>> /\ Head(name) = " " THEN lstrip(Tail(name)) ELSE name
RECURSIVE rstrip(_)
rstrip(name) ==
    IF name /= <<>> /\ name[Len(name)] = " "
    THEN rstrip(SubSeq(name, 1, Len(name) - 1)) ELSE name
strip(name) == rstrip(lstrip(name))

\* A stub without a team: assigned_team_name None (or empty).
NoName == <<>>
\* The team names requests and templates carry.
TeamNames == {<<"a", "b">>, <<"A", "B">>, <<"a", "_">>}
TeamNameInputs == TeamNames \cup {<<" ">>, <<"a", "b", " ">>}

\* query(Team).filter(Team.name.ilike(pattern)).first(): the table is
\* scanned in rowid order, so the first match has the lowest id.
FirstTeamLike(pattern) ==
    LET found == {i \in DOMAIN teams :
                     teams[i].exists /\ ilike(teams[i].name, pattern)}
    IN  IF found = {} THEN None
        ELSE CHOOSE m \in found : \A i \in found : m <= i

\* POST /api/teams (admin only).
create_team(user_id, name_in) ==
    LET name == strip(name_in)
        id == NextId(teams)
    IN  /\ User(user_id).role = ADMIN
        /\ UNCHANGED <<semVars, taskVars, audit, alerts>>
        /\ IF name = <<>>
           THEN /\ response' = Response("create_team", 400)
                /\ UNCHANGED teams
           ELSE IF FirstTeamLike(name) /= None
           THEN /\ response' = Response("create_team", 400)
                /\ UNCHANGED teams
           ELSE /\ id \in DOMAIN teams
                /\ teams' = [teams EXCEPT ![id] = [exists |-> TRUE, name |-> name]]
                /\ response' = Response("create_team", 200)

\* PUT /api/teams/{team_id} (admin only) with a name in the body.
update_team(user_id, team_id, name) ==
    /\ User(user_id).role = ADMIN
    /\ UNCHANGED <<semVars, taskVars, audit, alerts>>
    /\ IF ~Exists(teams, team_id)
       THEN /\ response' = Response("update_team", 404)
            /\ UNCHANGED teams
       ELSE IF \E i \in DOMAIN teams :
                  teams[i].exists /\ teams[i].name = name /\ i /= team_id
       THEN /\ response' = Response("update_team", 400)
            /\ UNCHANGED teams
       ELSE /\ teams' = [teams EXCEPT ![team_id].name = name]
            /\ response' = Response("update_team", 200)

\* An event template is the list of its stubs' assigned_team_name; a
\* template id that resolves to nothing is NoTemplate.
NoTemplate == << <<"NONE">> >>
StubNames == TeamNames \cup {NoName}
EventTemplates == UNION {[1..n -> StubNames] : n \in 0..MaxStubs}
\* A week template is the list of what its entries' event_template_id
\* resolve to.
WeekEntryTemplates == {NoTemplate} \cup UNION {[1..n -> StubNames] : n \in 0..1}
WeekTemplates == UNION {[1..n -> WeekEntryTemplates] : n \in 1..MaxEntries}
NoWeekTemplate == << << <<"NONE">> >> >>

\* datetime.fromisoformat on the strings requests carry: the day it
\* denotes, or ValueError.
ValueError == -1
DatetimeStrings == {"1970-01-03T00:00:00Z", "tomorrow"}
fromisoformat(string) ==
    IF string = "1970-01-03T00:00:00Z" THEN 2 ELSE ValueError

\* The pre-validation loop of create_from_template: the cache of resolved
\* names and the list of missing ones.
RECURSIVE PreValidate(_, _, _)
PreValidate(stubs, team_cache, missing_teams) ==
    IF stubs = <<>>
    THEN [team_cache |-> team_cache, missing_teams |-> missing_teams]
    ELSE LET name == Head(stubs)
             team == FirstTeamLike(name)
         IN  IF name /= NoName /\ name \notin DOMAIN team_cache
             THEN IF team /= None
                  THEN PreValidate(Tail(stubs), team_cache @@ (name :> team),
                                   missing_teams)
                  ELSE PreValidate(Tail(stubs), team_cache,
                                   Append(missing_teams, name))
             ELSE PreValidate(Tail(stubs), team_cache, missing_teams)

\* team_cache.get(name)
CacheGet(team_cache, name) ==
    IF name \in DOMAIN team_cache THEN team_cache[name] ELSE None

\* One Task per stub, in order, under the event.
RECURSIVE AddTasks(_, _, _, _)
AddTasks(table, event_id, stubs, team_cache) ==
    IF stubs = <<>> THEN table
    ELSE LET name == Head(stubs)
             id == NextId(table)
             row == [exists |-> TRUE, event_id |-> event_id,
                     status |-> PENDING,
                     assigned_to |-> None,
                     assigned_team_id |-> IF name /= NoName
                                          THEN CacheGet(team_cache, name)
                                          ELSE None,
                     completed_by |-> None,
                     cannot_do_reason |-> NoText,
                        auto_reminder_sent |-> FALSE]
         IN  AddTasks(id :> row @@ table, event_id, Tail(stubs), team_cache)

\* POST /api/templates/create (admin only).  The handler never looks the
\* week up.  Event.week_id is a foreign key to weeks.id: for a week_id that
\* names no week, db.flush() at line 911 raises IntegrityError (an unhandled
\* 500, nothing written) when the connection enforces foreign keys, and
\* inserts the row when it does not (SQLite's default); the pragma is set,
\* or not, in app/database.py.
create_from_template(user_id, template, week_id, datetime) ==
    LET pre == PreValidate(template, <<>>, <<>>)
        event_id == NextId(events)
        added == AddTasks(tasks, event_id, template, pre.team_cache)
    IN  /\ User(user_id).role = ADMIN
        /\ event_templates.overrides_default_id
        /\ UNCHANGED <<semesters, roster, weeks, task_assignments, audit,
                       alerts, teams,
                   task_comments, event_templates>>
        /\ IF template = NoTemplate
           THEN /\ response' = Response("create_from_template", 404)
                /\ UNCHANGED <<events, tasks>>
           ELSE IF pre.missing_teams /= <<>>
           THEN /\ response' = [op |-> "create_from_template", code |-> 400,
                                detail |-> pre.missing_teams]
                /\ UNCHANGED <<events, tasks>>
           ELSE IF fromisoformat(datetime) = ValueError
           THEN /\ response' = Response("create_from_template", 400)
                /\ UNCHANGED <<events, tasks>>
           ELSE \/ /\ ~Exists(weeks, week_id)
                   /\ response' = Response("create_from_template", 500)
                   /\ UNCHANGED <<events, tasks>>
                \/ /\ event_id \in DOMAIN events
                   /\ DOMAIN added = DOMAIN tasks
                   /\ events' = [events EXCEPT ![event_id] =
                          [exists |-> TRUE, week_id |-> week_id,
                           datetime |-> fromisoformat(datetime)]]
                   /\ tasks' = added
                   /\ response' = [op |-> "create_from_template", code |-> 200,
                                   event_id |-> event_id]

\* routers/events.py, POST /api/weeks/{week_id}/events (admin only).  The
\* body's datetime is day 2.
create_event(user_id, week_id) ==
    /\ User(user_id).role = ADMIN
    /\ UNCHANGED <<semesters, roster, weeks, taskVars, audit, alerts>>
    /\ IF ~Exists(weeks, week_id)
       THEN /\ response' = Response("create_event", 404)
            /\ UNCHANGED events
       ELSE /\ NextId(events) \in DOMAIN events
            /\ events' = [events EXCEPT ![NextId(events)] =
                   [exists |-> TRUE, week_id |-> week_id, datetime |-> 2]]
            /\ response' = Response("create_event", 200)

\* routers/weeks.py, DELETE /api/weeks/{week_id} (admin only).  db.delete
\* cascades through Week.events and Event.tasks (cascade="all,
\* delete-orphan") to the tasks' pool rows and comments.
delete_week(user_id, week_id) ==
    /\ User(user_id).role = ADMIN
    /\ UNCHANGED <<semesters, roster, audit, alerts>>
    /\ IF ~Exists(weeks, week_id)
       THEN /\ response' = Response("delete_week", 404)
            /\ UNCHANGED <<weeks, events, taskVars, task_comments>>
       ELSE LET goneEvents == {e \in DOMAIN events : /\ events[e].exists
                                                     /\ events[e].week_id = week_id}
                goneTasks == {t \in DOMAIN tasks : /\ tasks[t].exists
                                                   /\ tasks[t].event_id \in goneEvents}
            IN  /\ weeks' = [weeks EXCEPT ![week_id] = NoRow]
                /\ events' = [e \in DOMAIN events |->
                                IF e \in goneEvents THEN NoRow ELSE events[e]]
                /\ tasks' = [t \in DOMAIN tasks |->
                                IF t \in goneTasks THEN NoRow ELSE tasks[t]]
                /\ task_assignments' = {a \in task_assignments : a[1] \notin goneTasks}
                /\ task_comments' = [c \in DOMAIN task_comments |->
                                        IF /\ task_comments[c].exists
                                           /\ task_comments[c].task_id \in goneTasks
                                        THEN NoRow ELSE task_comments[c]]
                /\ response' = Response("delete_week", 200)

\* The first loop of create_from_week_template: every name is cached, a
\* missing team as None.
RECURSIVE WeekCache(_, _)
WeekCache(stubs, team_cache) ==
    IF stubs = <<>> THEN team_cache
    ELSE LET name == Head(stubs)
         IN  IF name /= NoName /\ name \notin DOMAIN team_cache
             THEN WeekCache(Tail(stubs),
                            team_cache @@ (name :> FirstTeamLike(name)))
             ELSE WeekCache(Tail(stubs), team_cache)

RECURSIVE WeekCacheAll(_, _)
WeekCacheAll(entries, team_cache) ==
    IF entries = <<>> THEN team_cache
    ELSE WeekCacheAll(Tail(entries),
                      IF Head(entries) = NoTemplate THEN team_cache
                      ELSE WeekCache(Head(entries), team_cache))

\* The second loop: an Event and its Tasks for every entry whose event
\* template resolves.  db is [events, tasks]; the week's start_date and the
\* entries' day and time give every event the same hour here.
RECURSIVE AddWeekEvents(_, _, _, _)
AddWeekEvents(db, entries, week_id, team_cache) ==
    IF entries = <<>> THEN db
    ELSE IF Head(entries) = NoTemplate
    THEN AddWeekEvents(db, Tail(entries), week_id, team_cache)
    ELSE LET event_id == NextId(db.events)
             row == [exists |-> TRUE, week_id |-> week_id,
                     datetime |-> fromisoformat("1970-01-03T00:00:00Z")]
         IN  AddWeekEvents(
                 [events |-> event_id :> row @@ db.events,
                  tasks |-> AddTasks(db.tasks, event_id, Head(entries),
                                     team_cache)],
                 Tail(entries), week_id, team_cache)

\* POST /api/templates/weeks/create (admin only).
create_from_week_template(user_id, week_template, week_id) ==
    LET team_cache == WeekCacheAll(week_template, <<>>)
        db == AddWeekEvents([events |-> events, tasks |-> tasks],
                            week_template, week_id, team_cache)
    IN  /\ User(user_id).role = ADMIN
        /\ event_templates.overrides_default_id
        /\ UNCHANGED <<semesters, roster, weeks, task_assignments, audit,
                       alerts, teams,
                   task_comments, event_templates>>
        /\ IF week_template = NoWeekTemplate
           THEN /\ response' = Response("create_from_week_template", 404)
                /\ UNCHANGED <<events, tasks>>
           ELSE IF ~Exists(weeks, week_id)
           THEN /\ response' = Response("create_from_week_template", 404)
                /\ UNCHANGED <<events, tasks>>
           ELSE /\ DOMAIN db.events = DOMAIN events
                /\ DOMAIN db.tasks = DOMAIN tasks
                /\ events' = db.events
                /\ tasks' = db.tasks
                /\ response' = Response("create_from_week_template", 200)

----------------------------------------------------------------------------
(* routers/templates.py: the event template catalogs.  The router filters  *)
(* on EventTemplateModel.overrides_default_id, reads it from rows and       *)
(* passes it to the constructor; models/template.py declares no such       *)
(* column.  event_templates.overrides_default_id says whether the mapped    *)
(* class of the running build has the attribute: with the models of this    *)
(* source it has not, and every expression that names it raises            *)
(* AttributeError; tests/test_bug_fixes.py expects create_from_template to  *)
(* build an event, which takes a build that has it.                         *)

MaxEventTemplates == 2   \* event_templates ids 1..MaxEventTemplates can be allocated

NoEventTemplates ==
    [overrides_default_id |-> FALSE,
     rows |-> [i \in 1..MaxEventTemplates |-> NoRow]]

\* Two of the built-in templates; the names are one character long and the
\* task lists are kept as a whole.
DEFAULT_EVENT_TEMPLATES ==
    <<[id |-> "email", name |-> <<"a">>, tasks |-> <<"default">>,
       is_custom |-> FALSE, is_modified |-> FALSE, can_reset |-> FALSE],
      [id |-> "kk", name |-> <<"b">>, tasks |-> <<"default">>,
       is_custom |-> FALSE, is_modified |-> FALSE, can_reset |-> FALSE]>>

\* The rows with overrides_default_id == template_id, in rowid order.
OverridesOf(template_id) ==
    InIdOrder({i \in DOMAIN event_templates.rows :
                  /\ event_templates.rows[i].exists
                  /\ event_templates.rows[i].overrides_default_id = template_id})

db_event_template_to_out(id) ==
    LET t == event_templates.rows[id]
    IN  IF t.overrides_default_id /= "NULL"
        THEN [id |-> t.overrides_default_id, name |-> t.name, tasks |-> t.tasks,
              is_custom |-> FALSE, is_modified |-> TRUE, can_reset |-> TRUE]
        ELSE [id |-> IF id = 1 THEN "db_1" ELSE "db_2", name |-> t.name,
              tasks |-> t.tasks,
              is_custom |-> TRUE, is_modified |-> FALSE, can_reset |-> FALSE]

\* The unhandled AttributeError of a handler whose first statement is a
\* template lookup by id (create_from_template line 879,
\* create_from_week_template line 949): the request answers 500 and has
\* written nothing.
get_event_template_by_id_raises(op) ==
    /\ ~event_templates.overrides_default_id
    /\ response' = Response(op, 500)
    /\ UNCHANGED <<semVars, taskVars, audit, alerts>>

\* get_event_template_by_id, lines 350-371, called with an id that does not
\* start with "db_": the override, else the built-in entry, else None.  The
\* response records what the call returned, in a list that is empty for
\* None and for a call that raised.
get_event_template_by_id(template_id) ==
    /\ response' =
           IF ~event_templates.overrides_default_id
           THEN [op |-> "get_event_template_by_id", code |-> 500,
                 template |-> <<>>]
           ELSE [op |-> "get_event_template_by_id", code |-> 200,
                 template |->
                     IF OverridesOf(template_id) /= <<>>
                     THEN <<db_event_template_to_out(OverridesOf(template_id)[1])>>
                     ELSE SelectSeq(DEFAULT_EVENT_TEMPLATES,
                                    LAMBDA t : t.id = template_id)]
    /\ UNCHANGED <<semVars, taskVars, audit, alerts, event_templates>>

\* GET /api/templates/events (admin only): the built-in entries in their
\* order, each replaced by the row that overrides it, then the custom rows.
\* t.overrides_default_id is read from every row.
get_event_templates(user_id) ==
    /\ User(user_id).role = ADMIN
    /\ LET db_templates == InIdOrder({i \in DOMAIN event_templates.rows :
                                         event_templates.rows[i].exists})
           overridden(d) == SelectSeq(db_templates,
                                LAMBDA i : event_templates.rows[i]
                                               .overrides_default_id = d.id)
       IN  response' =
               IF ~event_templates.overrides_default_id /\ db_templates /= <<>>
               THEN Response("get_event_templates", 500)
               ELSE [op |-> "get_event_templates", code |-> 200,
                     templates |->
                         [k \in 1..Len(DEFAULT_EVENT_TEMPLATES) |->
                             LET d == DEFAULT_EVENT_TEMPLATES[k]
                             IN  IF overridden(d) /= <<>>
                                 THEN db_event_template_to_out(
                                          overridden(d)[Len(overridden(d))])
                                 ELSE d]
                         \o [k \in 1..Len(SelectSeq(db_templates,
                                 LAMBDA i : event_templates.rows[i]
                                                .overrides_default_id = "NULL")) |->
                                db_event_template_to_out(
                                    SelectSeq(db_templates,
                                        LAMBDA i : event_templates.rows[i]
                                                       .overrides_default_id = "NULL")[k])]]
    /\ UNCHANGED <<semVars, taskVars, audit, alerts, event_templates>>

\* _event_name_conflicts, lines 225-251; exclude_id is None or a row id,
\* original_default_id "NULL" or a built-in id.
event_name_conflicts(name, exclude_id, original_default_id) ==
    \/ \E k \in 1..Len(DEFAULT_EVENT_TEMPLATES) :
          /\ LowerName(DEFAULT_EVENT_TEMPLATES[k].name) = LowerName(name)
          /\ ~(/\ original_default_id /= "NULL"
               /\ DEFAULT_EVENT_TEMPLATES[k].id = original_default_id)
    \/ \E i \in DOMAIN event_templates.rows :
          /\ event_templates.rows[i].exists
          /\ ilike(event_templates.rows[i].name, name)
          /\ exclude_id = None \/ i /= exclude_id

\* PUT /api/templates/events/{template_id} (admin only), called with an id
\* that does not start with "db_".  name and data_tasks (the body's tasks) are NoText when the body
\* leaves them out.  event_templates.name is unique: a second row of the
\* same name fails the commit.
update_event_template(user_id, template_id, name, data_tasks) ==
    LET defaults == SelectSeq(DEFAULT_EVENT_TEMPLATES, LAMBDA t : t.id = template_id)
        id == NextId(event_templates.rows)
        new_name == IF name /= NoText THEN name ELSE defaults[1].name
        SameName(n, except) ==
            \E i \in DOMAIN event_templates.rows :
                /\ event_templates.rows[i].exists
                /\ i /= except
                /\ event_templates.rows[i].name = n
    IN  /\ User(user_id).role = ADMIN
        /\ UNCHANGED <<semVars, taskVars, audit, alerts>>
        /\ IF defaults = <<>>
           THEN /\ response' = Response("update_event_template", 404)
                /\ UNCHANGED event_templates
           ELSE IF ~event_templates.overrides_default_id
           THEN /\ response' = Response("update_event_template", 500)
                /\ UNCHANGED event_templates
           ELSE IF OverridesOf(template_id) /= <<>>
           THEN LET override == OverridesOf(template_id)[1]
                    renamed == /\ name /= NoText
                               /\ name /= event_templates.rows[override].name
                IN  IF renamed /\ event_name_conflicts(name, override, template_id)
                    THEN /\ response' = Response("update_event_template", 400)
                         /\ UNCHANGED event_templates
                    ELSE IF renamed /\ SameName(name, override)
                    THEN /\ response' = Response("update_event_template", 500)
                         /\ UNCHANGED event_templates
                    ELSE /\ event_templates' =
                                [event_templates EXCEPT
                                    !.rows[override].name =
                                        IF renamed THEN name ELSE @,
                                    !.rows[override].tasks =
                                        IF data_tasks /= NoText THEN data_tasks ELSE @]
                         /\ response' = Response("update_event_template", 200)
           ELSE IF name /= NoText /\ event_name_conflicts(new_name, None, template_id)
           THEN /\ response' = Response("update_event_template", 400)
                /\ UNCHANGED event_templates
           ELSE IF SameName(new_name, None)
           THEN /\ response' = Response("update_event_template", 500)
                /\ UNCHANGED event_templates
           ELSE /\ id \in DOMAIN event_templates.rows
                /\ event_templates' = [event_templates EXCEPT !.rows[id] =
                       [exists |-> TRUE, name |-> new_name,
                        tasks |-> IF data_tasks /= NoText THEN data_tasks
                                  ELSE defaults[1].tasks,
                        overrides_default_id |-> template_id]]
                /\ response' = Response("update_event_template", 200)

\* POST /api/templates/events/{template_id}/reset (admin only)
reset_event_template(user_id, template_id) ==
    /\ User(user_id).role = ADMIN
    /\ UNCHANGED <<semVars, taskVars, audit, alerts>>
    /\ IF SelectSeq(DEFAULT_EVENT_TEMPLATES, LAMBDA t : t.id = template_id) = <<>>
       THEN /\ response' = Response("reset_event_template", 400)
            /\ UNCHANGED event_templates
       ELSE IF ~event_templates.overrides_default_id
       THEN /\ response' = Response("reset_event_template", 500)
            /\ UNCHANGED event_templates
       ELSE IF OverridesOf(template_id) = <<>>
       THEN /\ response' = Response("reset_event_template", 400)
            /\ UNCHANGED event_templates
       ELSE /\ event_templates' = [event_templates EXCEPT
                   !.rows[OverridesOf(template_id)[1]] = NoRow]
            /\ response' = Response("reset_event_template", 200)

----------------------------------------------------------------------------
(* routers/comments.py *)

MaxComments == 2       \* comment ids 1..MaxComments can be allocated

NoComments == [i \in 1..MaxComments |-> NoRow]

\* comments.py can_view_task, lines 31-44.
can_view_task(task_id, user_id) ==
    LET task == tasks[task_id]
        user == User(user_id)
    IN  IF user.role = ADMIN THEN TRUE
        ELSE IF task.assigned_to = user.id THEN TRUE
        ELSE IF task.assigned_team_id /= None
                /\ user.team_id = task.assigned_team_id THEN TRUE
        ELSE \E a \in task_assignments : a[1] = task_id /\ a[2] = user.id

\* GET /api/tasks/{task_id}/comments.  The answer lists the task's comments,
\* each with its author and the can_delete flag computed for the caller.
get_comments(user_id, task_id) ==
    /\ IF ~Exists(tasks, task_id)
       THEN response' = Response("get_comments", 404)
       ELSE IF ~can_view_task(task_id, user_id)
       THEN response' = Response("get_comments", 403)
       ELSE response' =
                [op |-> "get_comments", code |-> 200,
                 comments |->
                     {[id |-> c, task_id |-> task_id,
                       user_id |-> task_comments[c].user_id,
                       content |-> task_comments[c].content,
                       can_delete |-> \/ task_comments[c].user_id = user_id
                                      \/ User(user_id).role = ADMIN] :
                         c \in {i \in DOMAIN task_comments :
                                   /\ task_comments[i].exists
                                   /\ task_comments[i].task_id = task_id}}]
    /\ UNCHANGED <<semVars, taskVars, audit, alerts, task_comments>>

\* POST /api/tasks/{task_id}/comments
add_comment(user_id, task_id, content) ==
    /\ UNCHANGED <<semVars, taskVars, audit, alerts>>
    /\ IF ~Exists(tasks, task_id)
       THEN /\ response' = Response("add_comment", 404)
            /\ UNCHANGED task_comments
       ELSE IF ~can_view_task(task_id, user_id)
       THEN /\ response' = Response("add_comment", 403)
            /\ UNCHANGED task_comments
       ELSE IF strip(content) = <<>>
       THEN /\ response' = Response("add_comment", 400)
            /\ UNCHANGED task_comments
       ELSE LET id == NextId(task_comments)
            IN  /\ id \in DOMAIN task_comments
                /\ task_comments' = [task_comments EXCEPT ![id] =
                       [exists |-> TRUE, task_id |-> task_id,
                        user_id |-> user_id, content |-> strip(content)]]
                /\ response' = Response("add_comment", 200)

\* DELETE /api/tasks/{task_id}/comments/{comment_id}
delete_comment(user_id, task_id, comment_id) ==
    /\ UNCHANGED <<semVars, taskVars, audit, alerts>>
    /\ IF ~(/\ Exists(task_comments, comment_id)
            /\ task_comments[comment_id].task_id = task_id)
       THEN /\ response' = Response("delete_comment", 404)
            /\ UNCHANGED task_comments
       ELSE IF /\ task_comments[comment_id].user_id /= user_id
               /\ User(user_id).role /= ADMIN
       THEN /\ response' = Response("delete_comment", 403)
            /\ UNCHANGED task_comments
       ELSE /\ task_comments' = [task_comments EXCEPT ![comment_id] = NoRow]
            /\ response' = Response("delete_comment", 200)

\* routers/tasks.py, GET /api/events/{event_id}/tasks: the answer lists
\* every task of the event.
list_tasks(user_id, event_id) ==
    /\ IF ~Exists(events, event_id)
       THEN response' = Response("list_tasks", 404)
       ELSE response' = [op |-> "list_tasks", code |-> 200,
                         tasks |-> {t \in DOMAIN tasks :
                                       /\ tasks[t].exists
                                       /\ tasks[t].event_id = event_id}]
    /\ UNCHANGED <<semVars, taskVars, audit, alerts, task_comments>>

----------------------------------------------------------------------------
(* routers/weeks.py *)

\* The week numbers requests carry.
WeekNumbers == {1, 2}

\* POST /api/semesters/{semester_id}/weeks (admin only).  within_bounds
\* tells whether the dates of the body lie inside the semester's.
create_week(user_id, semester_id, week_number, within_bounds) ==
    LET id == NextId(weeks)
    IN  /\ User(user_id).role = ADMIN
        /\ UNCHANGED <<semesters, roster, events, taskVars, audit, alerts>>
        /\ IF ~Exists(semesters, semester_id)
           THEN /\ response' = Response("create_week", 404)
                /\ UNCHANGED weeks
           ELSE IF ~within_bounds
           THEN /\ response' = Response("create_week", 400)
                /\ UNCHANGED weeks
           ELSE IF \E w \in DOMAIN weeks :
                      /\ weeks[w].exists
                      /\ weeks[w].semester_id = semester_id
                      /\ weeks[w].week_number = week_number
           THEN /\ response' = Response("create_week", 400)
                /\ UNCHANGED weeks
           ELSE /\ id \in DOMAIN weeks
                /\ weeks' = [weeks EXCEPT ![id] =
                       [exists |-> TRUE, semester_id |-> semester_id,
                        week_number |-> week_number]]
                /\ response' = Response("create_week", 200)

\* week_data.model_dump(exclude_unset=True): the keys the body sets.
WeekUpdateDicts == {[unset |-> TRUE]} \cup [week_number : WeekNumbers]

\* PUT /api/weeks/{week_id} (admin only).
update_week(user_id, week_id, update_dict) ==
    /\ User(user_id).role = ADMIN
    /\ UNCHANGED <<semesters, roster, events, taskVars, audit, alerts>>
    /\ IF ~Exists(weeks, week_id)
       THEN /\ response' = Response("update_week", 404)
            /\ UNCHANGED weeks
       ELSE /\ weeks' = IF "week_number" \in DOMAIN update_dict
                        THEN [weeks EXCEPT ![week_id].week_number =
                                               update_dict.week_number]
                        ELSE weeks
            /\ response' = Response("update_week", 200)

----------------------------------------------------------------------------
(* services/scheduler.py *)

MaxRemindTasks == 2     \* tasks the reminder job can find
MaxNow == 3             \* the clock stops at this day
MaxAbortOutbox == 1     \* a run aborts only while at most this many
                        \* reminders have been sent

\* timedelta(days=1)
ReminderWindow == 1

\* users.discord_id: user 3 has none.
discord_id(user_id) ==
    IF user_id = 1 THEN "111" ELSE IF user_id = 2 THEN "222" ELSE ""

\* check_auto_reminders, lines 36-54: the Discord ids the three assignment
\* channels of a task give.
DiscordIds(task_id) ==
    LET task == tasks[task_id]
        single == IF task.assigned_to /= None
                  THEN {task.assigned_to} ELSE {}
        team == IF task.assigned_team_id /= None
                THEN {u \in UserIds : User(u).team_id = task.assigned_team_id}
                ELSE {}
        pool == {u \in UserIds : <<task_id, u>> \in task_assignments}
    IN  {discord_id(u) : u \in single \cup team \cup pool} \ {""}

\* The scan query at time at: PENDING tasks without the flag whose event
\* lies in [at, at + 1 day].
DueTasks(at) ==
    {t \in DOMAIN tasks :
        /\ tasks[t].exists
        /\ tasks[t].status = PENDING
        /\ ~tasks[t].auto_reminder_sent
        /\ Exists(events, tasks[t].event_id)
        /\ events[tasks[t].event_id].datetime >= at
        /\ events[tasks[t].event_id].datetime <= at + ReminderWindow}

\* A mutant of NextWithIds: a task without any Discord id is not passed
\* over.
NextWithIds_any_task(scanned, pos) ==
    IF pos > Len(scanned) THEN pos
    ELSE IF Exists(events, tasks[scanned[pos]].event_id)
    THEN pos
    ELSE pos + 1

\* The loop from position pos: the first scanned task whose event exists
\* and that has a Discord id, or one past the end.
RECURSIVE NextWithIds(_, _)
NextWithIds(scanned, pos) ==
    IF pos > Len(scanned) THEN pos
    ELSE IF /\ Exists(events, tasks[scanned[pos]].event_id)
            /\ DiscordIds(scanned[pos]) /= {}
    THEN pos
    ELSE NextWithIds(scanned, pos + 1)

RunIds == {1, 2}

\* The loop of run r from position pos up to its next await: the tasks
\* without recipient are passed over, send_reminder is called for the first
\* task that has one, and the run waits for it; at the end of the list the
\* session is closed.
RunLoop(r, scanned, pos) ==
    LET p == NextWithIds(scanned, pos)
    IN  IF p > Len(scanned)
        THEN /\ sessions' = [sessions EXCEPT ![r] = IdleSession]
             /\ UNCHANGED outbox
        ELSE /\ outbox' = Append(outbox,
                     [task_id |-> scanned[p],
                      status |-> tasks[scanned[p]].status])
             /\ sessions' = [sessions EXCEPT ![r] =
                     [pc |-> "send_reminder", scanned |-> scanned, pos |-> p]]

\* check_auto_reminders, lines 18-56: a run starts, scans and runs its loop
\* up to the first await.
check_auto_reminders(r) ==
    /\ sessions[r].pc = "idle"
    /\ RunLoop(r, InIdOrder(DueTasks(now)), 1)
    /\ UNCHANGED <<semVars, taskVars, audit, alerts, response, now, teams,
                   task_comments, event_templates>>

\* Lines 57-64 and the loop again: send_reminder returns, the flag of the
\* task is set and committed, and the loop goes on to its next await.  The
\* commit expires the scanned objects, so the rows are read again.
send_reminder_returns(r) ==
    /\ sessions[r].pc = "send_reminder"
    /\ LET task_id == sessions[r].scanned[sessions[r].pos]
       IN  tasks' = [tasks EXCEPT ![task_id].auto_reminder_sent = TRUE]
    /\ RunLoop(r, sessions[r].scanned, sessions[r].pos + 1)
    /\ UNCHANGED <<semVars, task_assignments, audit, alerts, response, now,
                   teams,
                   task_comments, event_templates>>

\* Lines 66-71: the run is ended by an error raised after the call and
\* before the commit has gone through; the session is rolled back and
\* closed.
check_auto_reminders_aborts(r) ==
    /\ sessions[r].pc = "send_reminder"
    /\ Len(outbox) <= MaxAbortOutbox
    /\ sessions' = [sessions EXCEPT ![r] = IdleSession]
    /\ UNCHANGED <<semVars, taskVars, audit, alerts, response, outbox, now,
                   teams,
                   task_comments, event_templates>>

\* datetime.now(timezone.utc) moves on.
clock_advances ==
    /\ now < MaxNow
    /\ now' = now + 1
    /\ UNCHANGED <<semVars, taskVars, audit, alerts, response, sessions,
                   outbox, teams,
                   task_comments, event_templates>>

----------------------------------------------------------------------------
(* The task state machine: one active semester with a week and an event,   *)
(* no task yet (tests/conftest.py: semester, week, event).                 *)

NoResponse == Response("none", 0)

FixtureSemesters ==
    [i \in SemIds |-> IF i = 1
                      THEN [exists |-> TRUE, name |-> "S1", is_active |-> TRUE]
                      ELSE NoRow]
FixtureWeeks ==
    [i \in WeekIds |-> IF i = 1
                       THEN [exists |-> TRUE, semester_id |-> 1, week_number |-> 1]
                       ELSE NoRow]
FixtureEvents ==
    [i \in EventIds |-> IF i = 1 THEN [exists |-> TRUE, week_id |-> 1] ELSE NoRow]

Init ==
    /\ semesters = FixtureSemesters
    /\ roster = {}
    /\ weeks = FixtureWeeks
    /\ events = FixtureEvents
    /\ tasks = [i \in TaskIds |-> NoRow]
    /\ task_assignments = {}
    /\ audit = <<>>
    /\ alerts = <<>>
    /\ response = NoResponse
    /\ sessions = <<>>
    /\ outbox = <<>>
    /\ now = 0
    /\ teams = FixtureTeams
    /\ task_comments = NoComments
    /\ event_templates = NoEventTemplates

AssigneeInputs == {None} \cup UserIds
TeamInputs == {None} \cup TeamIds
\* Task ids a request can name: the allocatable ones and one that never exists.
TaskIdInputs == 1..(MaxTasks + 1)

\* A behaviour of Spec holds at most MaxAudit accepted status requests and
\* at most MaxAlerts alerts waiting at once.
Next ==
    \/ \E u \in UserIds, e \in {1}, a \in AssigneeInputs, t \in TeamInputs,
          p \in PoolLists :
          create_task(u, e, a, t, p)
          /\ UNCHANGED restVars
    \/ \E u \in UserIds : get_admin_user_rejects(u, "create_task")
          /\ UNCHANGED restVars
    \/ \E u \in UserIds, id \in TaskIdInputs :
          mark_task_done(u, id) /\ Len(audit') <= MaxAudit
          /\ UNCHANGED restVars
    \/ \E u \in UserIds, id \in TaskIdInputs, r \in Texts \cup {MissingText} :
          /\ mark_task_cannot_do(u, id, r)
          /\ Len(audit') <= MaxAudit
          /\ Len(alerts') <= MaxAlerts
          /\ UNCHANGED restVars
    \/ \E u \in UserIds, id \in TaskIdInputs :
          undo_task_status(u, id) /\ Len(audit') <= MaxAudit
          /\ UNCHANGED restVars
    \/ send_admin_alert
          /\ UNCHANGED restVars

Spec == Init /\ [][Next]_vars

----------------------------------------------------------------------------
(* Admin alerts: task 1 is assigned to user 2, who flags it and takes the   *)
(* flag back; the alerts run in the background under each combination of    *)
(* the two Discord settings (config.py).                                    *)

InitAlert ==
    /\ semesters = FixtureSemesters
    /\ roster = {}
    /\ weeks = FixtureWeeks
    /\ events = FixtureEvents
    /\ tasks = [i \in TaskIds |->
                   [exists |-> TRUE, event_id |-> 1, status |-> PENDING,
                    assigned_to |-> 2, assigned_team_id |-> None,
                    completed_by |-> None, cannot_do_reason |-> NoText,
                    auto_reminder_sent |-> FALSE]]
    /\ task_assignments = {}
    /\ audit = <<>>
    /\ alerts = <<>>
    /\ response = NoResponse
    /\ sessions \in [DISCORD_ENABLED : BOOLEAN, ADMIN_WEBHOOK_URL : BOOLEAN,
                     pc : {"idle"}, attempt : {0}, calls : {<<>>},
                     result : {None}]
    /\ outbox = <<>>
    /\ now = 0
    /\ teams = FixtureTeams
    /\ task_comments = NoComments
    /\ event_templates = NoEventTemplates

NextAlert ==
    \/ \E u \in {2, 3} :
          /\ mark_task_cannot_do(u, 1, <<"a">>)
          /\ Len(audit') <= MaxAudit
          /\ Len(alerts') <= MaxAlerts
          /\ UNCHANGED restVars
    \/ undo_task_status(2, 1) /\ Len(audit') <= MaxAudit
          /\ UNCHANGED restVars
    \/ send_admin_alert_starts
    \/ \E outcome \in {"ok", "HTTPStatusError", "TransportError"} :
          send_webhook_with_retry_post(outcome)
    \/ send_webhook_with_retry_sleep

SpecAlert == InitAlert /\ [][NextAlert]_vars

\* The event loop resumes a coroutine whose await has completed: the POST
\* answers or fails within its timeout, and the sleep ends.
SpecAlertFair ==
    /\ SpecAlert
    /\ WF_vars(\E outcome \in {"ok", "HTTPStatusError", "TransportError"} :
                   send_webhook_with_retry_post(outcome))
    /\ WF_vars(send_webhook_with_retry_sleep)

----------------------------------------------------------------------------
(* routers/tasks.py, mark_task_done and mark_task_cannot_do statement by   *)
(* statement, for two requests served by different worker processes (see   *)
(* the sessions of routers/semesters.py above): the SELECT of the task,    *)
(* the flush of db.commit() and its COMMIT.                                *)

\* The attributes a call sets on the Task object it loaded.
MarkAssignments(op, user_id, reason) ==
    IF op = "mark_task_done"
    THEN [status |-> DONE, completed_by |-> user_id]
    ELSE [status |-> CANNOT_DO, cannot_do_reason |-> reason,
          completed_by |-> user_id]

\* The row after a call that runs alone: every attribute it sets.
Marked(row, assigned) ==
    [c \in DOMAIN row |-> IF c \in DOMAIN assigned THEN assigned[c] ELSE row[c]]

\* The UPDATE of the flush: it names the columns whose new value differs
\* from the value the object was loaded with, and leaves the others as the
\* row holds them by now.
FlushedTask(row, loaded, assigned) ==
    [c \in DOMAIN row |->
        IF c \in DOMAIN assigned /\ assigned[c] /= loaded[c]
        THEN assigned[c] ELSE row[c]]

MarkDone(op, code, user_id, task_id, reason, task) ==
    [pc |-> "done", op |-> op, code |-> code, user_id |-> user_id,
     task_id |-> task_id, reason |-> reason, task |-> task]

\* No other session has flushed and not yet committed.
TaskWriteLockFree(r) ==
    \A o \in RequestIds \ {r} : sessions[o].pc /= "flushed"

\* Lines 204-209 and 238-243: the SELECT of the task, the 404, and
\* can_modify_task with its 403.
mark_task_select(r, op, user_id, task_id, reason) ==
    /\ sessions[r].pc = "idle"
    /\ IF ~Exists(tasks, task_id)
       THEN /\ sessions' = [sessions EXCEPT ![r] =
                   MarkDone(op, 404, user_id, task_id, reason, NoRow)]
            /\ response' = Response(op, 404)
       ELSE IF ~can_modify_task(task_id, user_id)
       THEN /\ sessions' = [sessions EXCEPT ![r] =
                   MarkDone(op, 403, user_id, task_id, reason, NoRow)]
            /\ response' = Response(op, 403)
       ELSE /\ sessions' = [sessions EXCEPT ![r] =
                   [pc |-> "selected", op |-> op, user_id |-> user_id,
                    task_id |-> task_id, reason |-> reason,
                    task |-> tasks[task_id]]]
            /\ UNCHANGED response
    /\ UNCHANGED <<semVars, taskVars, audit, alerts, outbox, now, teams,
                   task_comments, event_templates>>

\* Lines 211-225 and 245-258, up to the flush inside db.commit(): the
\* UPDATE of the task and the INSERT of the audit row open the transaction
\* and take the write lock.
mark_task_flush(r) ==
    /\ sessions[r].pc = "selected"
    /\ TaskWriteLockFree(r)
    /\ LET q == sessions[r]
       IN  sessions' = [sessions EXCEPT ![r] =
               [pc |-> "flushed", op |-> q.op, user_id |-> q.user_id,
                task_id |-> q.task_id, reason |-> q.reason, task |-> q.task,
                txn |-> FlushedTask(tasks[q.task_id], q.task,
                                    MarkAssignments(q.op, q.user_id, q.reason))]]
    /\ UNCHANGED <<semVars, taskVars, audit, alerts, response, outbox, now,
                   teams, task_comments, event_templates>>

\* The COMMIT of db.commit() (lines 225, 258); mark_task_cannot_do then
\* schedules the admin alert (lines 265-274).
mark_task_commit(r) ==
    /\ sessions[r].pc = "flushed"
    /\ LET q == sessions[r]
       IN  /\ tasks' = [tasks EXCEPT ![q.task_id] = q.txn]
           /\ audit' = log_action(audit,
                                  IF q.op = "mark_task_done"
                                  THEN "TASK_DONE" ELSE "TASK_CANNOT_DO",
                                  q.task_id, q.user_id)
           /\ alerts' = IF q.op = "mark_task_done" THEN alerts
                        ELSE Append(alerts, [user |-> q.user_id,
                                             task |-> q.task_id,
                                             reason |-> q.reason])
           /\ sessions' = [sessions EXCEPT ![r] =
                  MarkDone(q.op, 200, q.user_id, q.task_id, q.reason, q.task)]
           /\ response' = Response(q.op, 200)
    /\ UNCHANGED <<semVars, task_assignments, outbox, now, teams,
                   task_comments, event_templates>>

\* sqlite3.OperationalError "database is locked" at the flush, while the
\* other session holds the write lock: the request answers 500 and has
\* written nothing.
mark_task_locked(r) ==
    /\ sessions[r].pc = "selected"
    /\ ~TaskWriteLockFree(r)
    /\ LET q == sessions[r]
       IN  /\ sessions' = [sessions EXCEPT ![r] =
                  MarkDone(q.op, 500, q.user_id, q.task_id, q.reason, q.task)]
           /\ response' = Response(q.op, 500)
    /\ UNCHANGED <<semVars, taskVars, audit, alerts, outbox, now, teams,
                   task_comments, event_templates>>

\* Task 1 is assigned to user 2; no other task exists.  Requests that run
\* alone come first; then each of the two sessions serves one request.
InitMark ==
    /\ semesters = FixtureSemesters
    /\ roster = {}
    /\ weeks = FixtureWeeks
    /\ events = FixtureEvents
    /\ tasks = [i \in TaskIds |->
                   IF i = 1
                   THEN [exists |-> TRUE, event_id |-> 1, status |-> PENDING,
                         assigned_to |-> 2, assigned_team_id |-> None,
                         completed_by |-> None, cannot_do_reason |-> NoText,
                         auto_reminder_sent |-> FALSE]
                   ELSE NoRow]
    /\ task_assignments = {}
    /\ audit = <<>>
    /\ alerts = <<>>
    /\ response = NoResponse
    /\ sessions = [r \in RequestIds |-> IdleSession]
    /\ outbox = <<>>
    /\ now = 0
    /\ teams = FixtureTeams
    /\ task_comments = NoComments
    /\ event_templates = NoEventTemplates

NextMark ==
    \/ \E u \in {1, 2} :
          /\ \A r \in RequestIds : sessions[r].pc = "idle"
          /\ mark_task_done(u, 1)
          /\ Len(audit') <= MaxAudit
          /\ UNCHANGED restVars
    \/ \E u \in {1, 2} :
          /\ \A r \in RequestIds : sessions[r].pc = "idle"
          /\ mark_task_cannot_do(u, 1, <<"a">>)
          /\ Len(audit') <= MaxAudit
          /\ UNCHANGED restVars
    \/ \E r \in RequestIds, u \in UserIds, t \in TaskIds :
          mark_task_select(r, "mark_task_done", u, t, NoText)
    \/ \E r \in RequestIds, u \in UserIds, t \in TaskIds :
          mark_task_select(r, "mark_task_cannot_do", u, t, <<"b">>)
    \/ \E r \in RequestIds : mark_task_flush(r)
    \/ \E r \in RequestIds : mark_task_commit(r)
    \/ \E r \in RequestIds : mark_task_locked(r)

SpecMark == InitMark /\ [][NextMark]_vars

----------------------------------------------------------------------------
(* Task administration: the same start, with update_task and delete_task;  *)
(* the status requests carry one reason and name allocatable task ids.      *)

NextUpdate ==
    \/ \E u \in UserIds, e \in {1}, a \in AssigneeInputs, t \in TeamInputs,
          p \in PoolLists :
          create_task(u, e, a, t, p)
          /\ UNCHANGED restVars
    \/ \E u \in UserIds, id \in TaskIds,
          a \in AssigneeInputs \cup {Unset}, t \in TeamInputs \cup {Unset},
          p \in PoolLists \cup {<<Unset>>} :
          update_task(u, id, a, t, p)
          /\ UNCHANGED restVars
    \/ \E u \in UserIds, id \in TaskIdInputs : delete_task(u, id)
          /\ UNCHANGED restVars
    \/ \E u \in UserIds, op \in {"create_task", "update_task", "delete_task"} :
          get_admin_user_rejects(u, op)
          /\ UNCHANGED restVars
    \/ \E u \in UserIds, id \in TaskIds :
          mark_task_done(u, id) /\ Len(audit') <= MaxAuditUpdate
          /\ UNCHANGED restVars
    \/ \E u \in UserIds, id \in TaskIds :
          /\ mark_task_cannot_do(u, id, <<"a">>)
          /\ Len(audit') <= MaxAuditUpdate
          /\ Len(alerts') <= MaxAlerts
          /\ UNCHANGED restVars
    \/ \E u \in UserIds, id \in TaskIds :
          undo_task_status(u, id) /\ Len(audit') <= MaxAuditUpdate
          /\ UNCHANGED restVars
    \/ send_admin_alert
          /\ UNCHANGED restVars

SpecUpdate == Init /\ [][NextUpdate]_vars

----------------------------------------------------------------------------
(* Semester administration: a fresh database (main.py init_db seeds only   *)
(* the admin account), then semester requests one at a time.               *)

InitSem ==
    /\ semesters = [i \in SemIds |-> NoRow]
    /\ roster = {}
    /\ weeks = [i \in WeekIds |-> NoRow]
    /\ events = [i \in EventIds |-> NoRow]
    /\ tasks = [i \in TaskIds |-> NoRow]
    /\ task_assignments = {}
    /\ audit = <<>>
    /\ alerts = <<>>
    /\ response = NoResponse
    /\ sessions = <<>>
    /\ outbox = <<>>
    /\ now = 0
    /\ teams = FixtureTeams
    /\ task_comments = NoComments
    /\ event_templates = NoEventTemplates

SemIdInputs == 1..(MaxSemesters + 1)

NextSem ==
    \/ \E u \in UserIds, n \in SemNames, b \in BOOLEAN : create_semester(u, n, b)
          /\ UNCHANGED restVars
    \/ \E u \in UserIds, id \in SemIdInputs, d \in UpdateDicts :
          update_semester(u, id, d)
          /\ UNCHANGED restVars
    \/ \E u \in UserIds, id \in SemIdInputs : delete_semester(u, id)
          /\ UNCHANGED restVars
    \/ \E u \in UserIds, batch \in ImportBatches : import_data(u, batch)
          /\ UNCHANGED restVars
    \/ \E u \in UserIds,
          op \in {"create_semester", "update_semester", "delete_semester",
                  "import_data"} :
          get_admin_user_rejects(u, op)
          /\ UNCHANGED restVars

SpecSem == InitSem /\ [][NextSem]_vars

\* Imports on the same fresh database, with the body of the last import
\* request kept in sessions so that a step can be compared with its input.
NextImport ==
    \/ \E batch \in ImportBatches :
          /\ import_data(1, batch)
          /\ sessions' = <<[op |-> "import_data", data |-> batch]>>
          /\ UNCHANGED <<outbox, now, teams,
                   task_comments, event_templates>>
    \/ \E id \in SemIds : delete_semester(1, id)
          /\ UNCHANGED restVars
    \/ \E u \in UserIds : get_admin_user_rejects(u, "import_data")
          /\ UNCHANGED restVars

SpecImport == InitSem /\ [][NextImport]_vars

----------------------------------------------------------------------------
(* The dashboard: two semesters, the first one active, each with a week    *)
(* and an event; the admin creates tasks under either event, edits the     *)
(* rosters and the semesters, and every user reads the dashboard.          *)

DashSemesters ==
    [i \in SemIds |-> IF i = 1
                      THEN [exists |-> TRUE, name |-> "S1", is_active |-> TRUE]
                      ELSE IF i = 2
                      THEN [exists |-> TRUE, name |-> "S2", is_active |-> FALSE]
                      ELSE NoRow]
DashWeeks ==
    [i \in WeekIds |-> [exists |-> TRUE, semester_id |-> i, week_number |-> 1]]
DashEvents ==
    [i \in EventIds |-> [exists |-> TRUE, week_id |-> i]]

InitDash ==
    /\ semesters = DashSemesters
    /\ roster = {}
    /\ weeks = DashWeeks
    /\ events = DashEvents
    /\ tasks = [i \in TaskIds |-> NoRow]
    /\ task_assignments = {}
    /\ audit = <<>>
    /\ alerts = <<>>
    /\ response = NoResponse
    /\ sessions = <<>>
    /\ outbox = <<>>
    /\ now = 0
    /\ teams = FixtureTeams
    /\ task_comments = NoComments
    /\ event_templates = NoEventTemplates

NextDash ==
    \/ \E u \in UserIds, e \in EventIds, a \in AssigneeInputs, t \in TeamInputs,
          p \in PoolLists :
          create_task(u, e, a, t, p)
          /\ UNCHANGED restVars
    \/ \E u \in UserIds, s \in SemIds, l \in RosterLists :
          add_to_roster(u, s, l)
          /\ UNCHANGED restVars
    \/ \E u \in UserIds, s \in SemIds, m \in UserIds : remove_from_roster(u, s, m)
          /\ UNCHANGED restVars
    \/ \E u \in UserIds, id \in SemIds, b \in BOOLEAN :
          update_semester(u, id, [is_active |-> b])
          /\ UNCHANGED restVars
    \/ \E u \in UserIds,
          op \in {"create_task", "add_to_roster", "remove_from_roster",
                  "update_semester"} :
          get_admin_user_rejects(u, op)
          /\ UNCHANGED restVars
    \/ \E u \in UserIds : get_dashboard(u)
          /\ UNCHANGED restVars

SpecDash == InitDash /\ [][NextDash]_vars

----------------------------------------------------------------------------
(* Two semester requests at once: any semesters table the requests of      *)
(* SpecSem leave behind (at most one active semester), then two requests,  *)
(* each a create_semester or an update_semester, interleaved statement by  *)
(* statement.                                                              *)

RaceSemesters ==
    {t \in [SemIds -> {NoRow} \cup [exists : {TRUE}, name : SemNames,
                                     is_active : BOOLEAN]] :
        /\ Cardinality(ActiveSemesters(t)) <= 1
        /\ \A i \in SemIds : t[i].exists => t[i].name = "S1"}

InitRace ==
    /\ semesters \in RaceSemesters
    /\ roster = {}
    /\ weeks = [i \in WeekIds |-> NoRow]
    /\ events = [i \in EventIds |-> NoRow]
    /\ tasks = [i \in TaskIds |-> NoRow]
    /\ task_assignments = {}
    /\ audit = <<>>
    /\ alerts = <<>>
    /\ response = NoResponse
    /\ sessions = [r \in RequestIds |-> IdleSession]
    /\ outbox = <<>>
    /\ now = 0
    /\ teams = FixtureTeams
    /\ task_comments = NoComments
    /\ event_templates = NoEventTemplates

NextRace ==
    \/ \E r \in RequestIds, n \in SemNames : create_semester_deactivate(r, n)
    \/ \E r \in RequestIds : create_semester_commit(r)
    \/ \E r \in RequestIds, n \in SemNames : create_semester_inactive(r, n)
    \/ \E r \in RequestIds, id \in SemIdInputs, d \in UpdateDicts :
          update_semester_select(r, id, d)
    \/ \E r \in RequestIds : update_semester_deactivate(r)
    \/ \E r \in RequestIds : update_semester_commit(r)
    \/ \E r \in RequestIds, op \in {"create_semester", "update_semester"} :
          database_is_locked(r, op)

SpecRace == InitRace /\ [][NextRace]_vars

----------------------------------------------------------------------------
(* Teams and templates: one week, no team, no event and no task yet.       *)

InitTemplate ==
    /\ semesters = FixtureSemesters
    /\ roster = {}
    /\ weeks = FixtureWeeks
    /\ events = [i \in 1..MaxTemplateEvents |-> NoRow]
    /\ tasks = [i \in 1..MaxTemplateTasks |-> NoRow]
    /\ task_assignments = {}
    /\ audit = <<>>
    /\ alerts = <<>>
    /\ response = NoResponse
    /\ sessions = <<>>
    /\ outbox = <<>>
    /\ now = 0
    /\ teams = [i \in TeamIds |-> NoRow]
    /\ task_comments = NoComments
    /\ event_templates \in {NoEventTemplates,
                           [NoEventTemplates EXCEPT !.overrides_default_id = TRUE]}

NextTemplate ==
    \/ \E name \in TeamNameInputs :
          create_team(1, name)
          /\ UNCHANGED <<sessions, outbox, now, task_comments, event_templates>>
    \/ \E id \in TeamIds, name \in TeamNames :
          update_team(1, id, name)
          /\ UNCHANGED <<sessions, outbox, now, task_comments, event_templates>>
    \/ \E template \in EventTemplates \cup {NoTemplate},
          datetime \in DatetimeStrings :
          create_from_template(1, template, 1, datetime)
          /\ UNCHANGED <<sessions, outbox, now, task_comments, event_templates>>
    \/ \E week_template \in WeekTemplates \cup {NoWeekTemplate},
          week_id \in WeekIds :
          create_from_week_template(1, week_template, week_id)
          /\ UNCHANGED <<sessions, outbox, now, task_comments, event_templates>>
    \/ \E op \in {"create_from_template", "create_from_week_template"} :
          get_event_template_by_id_raises(op)
          /\ UNCHANGED restVars
    \/ \E u \in UserIds,
          op \in {"create_team", "update_team", "create_from_template",
                  "create_from_week_template"} :
          get_admin_user_rejects(u, op)
          /\ UNCHANGED restVars

SpecTemplate == InitTemplate /\ [][NextTemplate]_vars

----------------------------------------------------------------------------
(* Events and weeks: the start of SpecTemplate (week 1 exists, week 2     *)
(* does not); the admin creates events by hand and from templates whose     *)
(* stubs name no team, and deletes and re-creates weeks.                    *)

NextEvents ==
    \/ \E week_id \in WeekIds : create_event(1, week_id)
          /\ UNCHANGED <<sessions, outbox, now, teams, task_comments,
                         event_templates>>
    \/ \E week_id \in WeekIds : delete_week(1, week_id)
          /\ UNCHANGED <<sessions, outbox, now, teams, event_templates>>
    \/ \E n \in WeekNumbers : create_week(1, 1, n, TRUE)
          /\ UNCHANGED restVars
    \/ \E template \in {<<>>, <<NoName>>, NoTemplate}, week_id \in WeekIds :
          create_from_template(1, template, week_id, "1970-01-03T00:00:00Z")
          /\ UNCHANGED <<sessions, outbox, now, task_comments, event_templates>>
    \/ \E week_template \in {<< <<NoName>> >>, NoWeekTemplate},
          week_id \in WeekIds :
          create_from_week_template(1, week_template, week_id)
          /\ UNCHANGED <<sessions, outbox, now, task_comments, event_templates>>
    \/ \E op \in {"create_from_template", "create_from_week_template"} :
          get_event_template_by_id_raises(op)
          /\ UNCHANGED restVars
    \/ \E u \in UserIds, op \in {"create_event", "delete_week"} :
          get_admin_user_rejects(u, op)
          /\ UNCHANGED restVars

SpecEvents == InitTemplate /\ [][NextEvents]_vars

----------------------------------------------------------------------------
(* The reminder job: an event on day 2 with two PENDING tasks, each        *)
(* assigned to user 2 or to user 3, and two runs of the job.               *)

RemindEvents ==
    [i \in EventIds |-> IF i = 1
                        THEN [exists |-> TRUE, week_id |-> 1,
                              datetime |-> fromisoformat("1970-01-03T00:00:00Z")]
                        ELSE NoRow]
RemindTask(assigned_to) ==
    [exists |-> TRUE, event_id |-> 1, status |-> PENDING,
     assigned_to |-> assigned_to, assigned_team_id |-> None,
     completed_by |-> None, cannot_do_reason |-> NoText,
     auto_reminder_sent |-> FALSE]

InitRemind ==
    /\ semesters = FixtureSemesters
    /\ roster = {}
    /\ weeks = FixtureWeeks
    /\ events = RemindEvents
    /\ tasks \in [1..MaxRemindTasks -> {RemindTask(2), RemindTask(3)}]
    /\ task_assignments = {}
    /\ audit = <<>>
    /\ alerts = <<>>
    /\ response = NoResponse
    /\ sessions = [r \in RunIds |-> IdleSession]
    /\ outbox = <<>>
    /\ now = 0
    /\ teams = FixtureTeams
    /\ task_comments = NoComments
    /\ event_templates = NoEventTemplates

NextRemind ==
    \/ \E r \in RunIds : check_auto_reminders(r)
    \/ \E r \in RunIds : send_reminder_returns(r)
    \/ \E r \in RunIds : check_auto_reminders_aborts(r)
    \/ clock_advances
    \/ \E id \in 1..MaxRemindTasks :
          mark_task_done(1, id) /\ Len(audit') <= MaxAuditUpdate
          /\ UNCHANGED restVars
    \/ \E id \in 1..MaxRemindTasks :
          /\ mark_task_cannot_do(1, id, <<"a">>)
          /\ Len(audit') <= MaxAuditUpdate
          /\ Len(alerts') <= MaxAlerts
          /\ UNCHANGED restVars
    \/ send_admin_alert
          /\ UNCHANGED restVars
    \/ \E id \in 1..MaxRemindTasks, a \in {2, 3} :
          update_task(1, id, a, Unset, <<Unset>>)
          /\ UNCHANGED restVars

SpecRemind == InitRemind /\ [][NextRemind]_vars

\* The job is started every hour and an awaited send_reminder returns.
SpecRemindFair ==
    /\ SpecRemind
    /\ WF_vars(\E r \in RunIds : check_auto_reminders(r))
    /\ WF_vars(\E r \in RunIds : send_reminder_returns(r))

----------------------------------------------------------------------------
(* Weeks: one semester and no week yet.                                    *)

InitWeek ==
    /\ semesters = FixtureSemesters
    /\ roster = {}
    /\ weeks = [i \in WeekIds |-> NoRow]
    /\ events = [i \in EventIds |-> NoRow]
    /\ tasks = [i \in TaskIds |-> NoRow]
    /\ task_assignments = {}
    /\ audit = <<>>
    /\ alerts = <<>>
    /\ response = NoResponse
    /\ sessions = <<>>
    /\ outbox = <<>>
    /\ now = 0
    /\ teams = FixtureTeams
    /\ task_comments = NoComments
    /\ event_templates = NoEventTemplates

NextWeek ==
    \/ \E semester_id \in SemIdInputs, n \in WeekNumbers, b \in BOOLEAN :
          create_week(1, semester_id, n, b)
          /\ UNCHANGED restVars
    \/ \E week_id \in WeekIds \cup {3}, d \in WeekUpdateDicts :
          update_week(1, week_id, d)
          /\ UNCHANGED restVars
    \/ \E batch \in ImportBatches : import_data(1, batch)
          /\ UNCHANGED restVars
    \/ \E u \in UserIds, op \in {"create_week", "update_week", "import_data"} :
          get_admin_user_rejects(u, op)
          /\ UNCHANGED restVars

SpecWeek == InitWeek /\ [][NextWeek]_vars

----------------------------------------------------------------------------
(* Rosters: two semesters, nobody on a roster yet.                         *)

InitRoster ==
    /\ semesters = [i \in SemIds |->
                       [exists |-> TRUE, name |-> IF i = 1 THEN "S1" ELSE "S2",
                        is_active |-> i = 1]]
    /\ roster = {}
    /\ weeks = [i \in WeekIds |-> NoRow]
    /\ events = [i \in EventIds |-> NoRow]
    /\ tasks = [i \in TaskIds |-> NoRow]
    /\ task_assignments = {}
    /\ audit = <<>>
    /\ alerts = <<>>
    /\ response = NoResponse
    /\ sessions = <<>>
    /\ outbox = <<>>
    /\ now = 0
    /\ teams = FixtureTeams
    /\ task_comments = NoComments
    /\ event_templates = NoEventTemplates

NextRoster ==
    \/ \E s \in SemIdInputs, l \in RosterInputLists :
          add_to_roster(1, s, l)
          /\ UNCHANGED restVars
    \/ \E s \in SemIdInputs :
          add_all_to_roster(1, s)
          /\ UNCHANGED restVars
    \/ \E s \in SemIds, m \in UserIds :
          remove_from_roster(1, s, m)
          /\ UNCHANGED restVars
    \/ \E u \in UserIds,
          op \in {"add_to_roster", "add_all_to_roster", "remove_from_roster"} :
          get_admin_user_rejects(u, op)
          /\ UNCHANGED restVars

SpecRoster == InitRoster /\ [][NextRoster]_vars

----------------------------------------------------------------------------
(* Comments: task 1 is assigned to user 2; the admin reassigns it, gives  *)
(* it to a team or puts users into its pool, and every user reads, writes   *)
(* and deletes comments and lists the tasks of an event.                    *)

InitComments ==
    /\ semesters = FixtureSemesters
    /\ roster = {}
    /\ weeks = FixtureWeeks
    /\ events = FixtureEvents
    /\ tasks = [i \in TaskIds |->
                   [exists |-> TRUE, event_id |-> 1, status |-> PENDING,
                    assigned_to |-> 2, assigned_team_id |-> None,
                    completed_by |-> None, cannot_do_reason |-> NoText,
                    auto_reminder_sent |-> FALSE]]
    /\ task_assignments = {}
    /\ audit = <<>>
    /\ alerts = <<>>
    /\ response = NoResponse
    /\ sessions = <<>>
    /\ outbox = <<>>
    /\ now = 0
    /\ teams = FixtureTeams
    /\ task_comments = NoComments
    /\ event_templates = NoEventTemplates

NextComments ==
    \/ \E u \in UserIds, t \in TaskIdInputs : get_comments(u, t)
          /\ UNCHANGED <<sessions, outbox, now, teams, event_templates>>
    \/ \E u \in UserIds, t \in TaskIdInputs, c \in Texts : add_comment(u, t, c)
          /\ UNCHANGED <<sessions, outbox, now, teams, event_templates>>
    \/ \E u \in UserIds, t \in TaskIdInputs, c \in 1..(MaxComments + 1) :
          delete_comment(u, t, c)
          /\ UNCHANGED <<sessions, outbox, now, teams, event_templates>>
    \/ \E u \in UserIds, e \in EventIds : list_tasks(u, e)
          /\ UNCHANGED <<sessions, outbox, now, teams, event_templates>>
    \/ \E a \in AssigneeInputs \cup {Unset}, t \in TeamInputs \cup {Unset},
          p \in PoolLists \cup {<<Unset>>} :
          update_task(1, 1, a, t, p)
          /\ UNCHANGED restVars

SpecComments == InitComments /\ [][NextComments]_vars

----------------------------------------------------------------------------
(* The event template catalog: no row yet, in either build.               *)

InitCatalog ==
    /\ semesters = FixtureSemesters
    /\ roster = {}
    /\ weeks = FixtureWeeks
    /\ events = FixtureEvents
    /\ tasks = [i \in TaskIds |-> NoRow]
    /\ task_assignments = {}
    /\ audit = <<>>
    /\ alerts = <<>>
    /\ response = NoResponse
    /\ sessions = <<>>
    /\ outbox = <<>>
    /\ now = 0
    /\ teams = FixtureTeams
    /\ task_comments = NoComments
    /\ event_templates \in {NoEventTemplates,
                           [NoEventTemplates EXCEPT !.overrides_default_id = TRUE]}

NextCatalog ==
    \/ \E template_id \in {"email", "kk", "zz"} :
          get_event_template_by_id(template_id)
          /\ UNCHANGED <<sessions, outbox, now, teams, task_comments>>
    \/ get_event_templates(1)
          /\ UNCHANGED <<sessions, outbox, now, teams, task_comments>>
    \/ \E template_id \in {"email", "kk", "zz"},
          name \in {NoText, <<"a">>, <<"c">>, <<"C">>},
          data_tasks \in {NoText, <<"edited">>} :
          update_event_template(1, template_id, name, data_tasks)
          /\ UNCHANGED <<sessions, outbox, now, teams, task_comments>>
    \/ \E template_id \in {"email", "kk", "zz"} :
          reset_event_template(1, template_id)
          /\ UNCHANGED <<sessions, outbox, now, teams, task_comments>>
    \/ \E u \in UserIds,
          op \in {"get_event_templates", "update_event_template",
                  "reset_event_template"} :
          get_admin_user_rejects(u, op)
          /\ UNCHANGED restVars

SpecCatalog == InitCatalog /\ [][NextCatalog]_vars

----------------------------------------------------------------------------
(* Properties of the task handlers *)

\* The authorization rule as the specification states it.
Authorized(task_id, user_id) ==
    \/ User(user_id).role = ADMIN
    \/ tasks[task_id].assigned_to = user_id
    \/ /\ tasks[task_id].assigned_team_id /= None
       /\ tasks[task_id].assigned_team_id = User(user_id).team_id
    \/ <<task_id, user_id>> \in task_assignments

\* The step is some status request of user u on task t with a well-formed
\* body (the handler's name in the response is looked at first only to spare
\* evaluating the handlers that did not run).
StatusRequest(u, t) ==
    \/ response'.op = "mark_task_done" /\ mark_task_done(u, t)
    \/ response'.op = "mark_task_cannot_do"
          /\ \E r \in Texts : mark_task_cannot_do(u, t, r)
    \/ response'.op = "undo_task_status" /\ undo_task_status(u, t)

\* C1: on an existing task, mark_task_done, mark_task_cannot_do and
\* undo_task_status answer 200 exactly when the caller is an admin, the
\* task's assigned_to, a member of the task's (non-null) team or in the
\* task's pool, and answer 403 in every other case.
C1_AuthorizedIff ==
    [][\A u \in UserIds, t \in TaskIds :
          (Exists(tasks, t) /\ StatusRequest(u, t)) =>
              response'.code = IF Authorized(t, u) THEN 200 ELSE 403]_vars

\* A team member, neither assigned_to nor in the pool, has completed a task.
C1_Witness ==
    /\ response = Response("mark_task_done", 200)
    /\ Exists(tasks, 1)
    /\ tasks[1].completed_by = 2
    /\ tasks[1].assigned_to /= 2
    /\ <<1, 2>> \notin task_assignments
    /\ tasks[1].assigned_team_id = User(2).team_id

\* C5 (as claimed): no single request moves a task from DONE to CANNOT_DO or
\* from CANNOT_DO to DONE; the task passes through PENDING in between.
C5_OnlyThroughPending ==
    [][\A t \in TaskIds :
          (Exists(tasks, t) /\ Exists(tasks', t)) =>
              /\ ~(tasks[t].status = DONE /\ tasks'[t].status = CANNOT_DO)
              /\ ~(tasks[t].status = CANNOT_DO /\ tasks'[t].status = DONE)]_vars

\* A reason that is missing, empty or made of spaces only.
IsBlank(reason) ==
    reason = MissingText \/ \A i \in 1..Len(reason) : reason[i] = " "

\* C6 (as claimed): mark_task_cannot_do with a missing, empty or
\* whitespace-only reason is answered 422 and leaves the task, the audit log
\* and the alert queue as they were.
C6_BlankReasonRejected ==
    [][\A u \in UserIds, t \in TaskIds, r \in Texts \cup {MissingText} :
          (/\ IsBlank(r)
           /\ response'.op = "mark_task_cannot_do"
           /\ mark_task_cannot_do(u, t, r)) =>
              /\ response'.code = 422
              /\ UNCHANGED <<tasks, audit, alerts>>]_vars

\* C7: a status request by a caller the rule does not authorize, or on a task
\* id with no row, is answered 403 (404 for the missing row), and changes no
\* task, no pool row, no audit row and schedules no alert.
C7_RejectedChangesNothing ==
    [][\A u \in UserIds, t \in TaskIdInputs :
          ((~Exists(tasks, t) \/ ~Authorized(t, u)) /\ StatusRequest(u, t)) =>
              /\ response'.code = IF Exists(tasks, t) THEN 403 ELSE 404
              /\ UNCHANGED <<tasks, task_assignments, audit, alerts>>]_vars

\* A 403 has been answered while an earlier accepted request's audit row and
\* task state are in the tables.
C7_Witness ==
    /\ response = Response("undo_task_status", 403)
    /\ Exists(tasks, 1)
    /\ tasks[1].status = DONE
    /\ Len(audit) = 1

\* C8: an accepted undo_task_status on a DONE or CANNOT_DO task leaves it
\* PENDING with completed_by and cannot_do_reason null.
C8_UndoRestoresPending ==
    [][\A u \in UserIds, t \in TaskIds :
          (/\ Exists(tasks, t)
           /\ tasks[t].status \in {DONE, CANNOT_DO}
           /\ Authorized(t, u)
           /\ response'.op = "undo_task_status"
           /\ undo_task_status(u, t)) =>
              /\ tasks'[t].status = PENDING
              /\ tasks'[t].completed_by = None
              /\ tasks'[t].cannot_do_reason = NoText]_vars

\* mark_task_cannot_do then undo_task_status by the assignee.
C8_Witness ==
    /\ response = Response("undo_task_status", 200)
    /\ Len(audit) = 2
    /\ audit[1].action = "TASK_CANNOT_DO" /\ audit[1].user_id = 2
    /\ audit[2].action = "TASK_UNDO" /\ audit[2].user_id = 2
    /\ tasks[1].status = PENDING

\* C9: every accepted mark_task_done appends exactly one TASK_DONE audit row
\* for the task and the caller, and when the task was already DONE by the
\* same caller the tasks and pool tables are left as they were.
C9_MarkDoneIdempotent ==
    [][\A u \in UserIds, t \in TaskIds :
          (/\ Exists(tasks, t)
           /\ Authorized(t, u)
           /\ response'.op = "mark_task_done"
           /\ mark_task_done(u, t)) =>
              /\ audit' = Append(audit, [action |-> "TASK_DONE",
                                         entity_type |-> "task",
                                         entity_id |-> t, user_id |-> u])
              /\ tasks'[t].status = DONE
              /\ tasks'[t].completed_by = u
              /\ (tasks[t].status = DONE /\ tasks[t].completed_by = u)
                    => UNCHANGED <<tasks, task_assignments>>]_vars

\* Two mark_task_done calls by the assignee: two TASK_DONE rows.
C9_Witness ==
    /\ Len(audit) = 2
    /\ \A i \in 1..2 : audit[i].action = "TASK_DONE" /\ audit[i].user_id = 2
                       /\ audit[i].entity_id = 1
    /\ tasks[1].status = DONE
    /\ tasks[1].completed_by = 2

\* C4: an accepted update_task resets the task to PENDING with completed_by
\* and cannot_do_reason null exactly when the body carries an assigned_to or
\* an assigned_team_id different from the stored one and the stored status is
\* not PENDING; otherwise (the stored value repeated, or only
\* assigned_user_ids sent) status, completed_by and cannot_do_reason stay.
\* (An accepted update stores every value its body carries, so the bodies
\* that can have produced a step carry, for each of the three keys, nothing
\* or the value the tables hold after the step.)
C4_ResetOnReassignment ==
    [][\A t \in TaskIds :
          (Exists(tasks, t) /\ response' = Response("update_task", 200)) =>
          \A a \in {Unset, tasks'[t].assigned_to},
             tm \in {Unset, tasks'[t].assigned_team_id},
             p \in {<<Unset>>} \cup
                   {l \in PoolLists :
                       SeqToSet(l) = {x[2] : x \in {y \in task_assignments' :
                                                       y[1] = t}}} :
             (\E u \in UserIds : update_task(u, t, a, tm, p)) =>
                LET differs == \/ a /= Unset /\ a /= tasks[t].assigned_to
                               \/ tm /= Unset /\ tm /= tasks[t].assigned_team_id
                IN  IF differs /\ tasks[t].status /= PENDING
                    THEN /\ tasks'[t].status = PENDING
                         /\ tasks'[t].completed_by = None
                         /\ tasks'[t].cannot_do_reason = NoText
                    ELSE /\ tasks'[t].status = tasks[t].status
                         /\ tasks'[t].completed_by = tasks[t].completed_by
                         /\ tasks'[t].cannot_do_reason =
                                tasks[t].cannot_do_reason]_vars

\* A CANNOT_DO task has been updated and came out PENDING.
C4_Witness ==
    /\ response = Response("update_task", 200)
    /\ Len(audit) = 1 /\ audit[1].action = "TASK_CANNOT_DO"
    /\ tasks[1].status = PENDING
    /\ tasks[1].completed_by = None
    /\ tasks[1].cannot_do_reason = NoText

----------------------------------------------------------------------------
(* Properties of the dashboard *)

\* The tasks under a semester: those of the events of its weeks.
TasksUnder(semester_id) ==
    {t \in TaskIds :
        /\ tasks[t].exists
        /\ \E ev \in EventIds, w \in WeekIds :
              /\ events[ev].exists /\ tasks[t].event_id = ev
              /\ weeks[w].exists /\ events[ev].week_id = w
              /\ weeks[w].semester_id = semester_id}

\* The tasks a dashboard response lists.
TasksShown(resp) ==
    UNION {ed.tasks : ed \in UNION {resp.weeks[k].events : k \in 1..Len(resp.weeks)}}

\* C2: for every non-admin user with no roster row for the active semester,
\* get_dashboard answers with that semester's name and id and an empty
\* weeks list, whatever direct, team or pool assignments the user holds.
C2_OffRosterSeesNoWeeks ==
    [][\A u \in UserIds, s \in SemIds :
          (/\ response'.op = "get_dashboard"
           /\ get_dashboard(u)
           /\ User(u).role /= ADMIN
           /\ semesters[s].exists /\ semesters[s].is_active
           /\ <<s, u>> \notin roster)
          => /\ response'.semester_id = s
             /\ response'.semester_name = semesters[s].name
             /\ response'.weeks = <<>>]_vars

\* A member's dashboard for the active semester 1 came back without weeks
\* while task 1 of that semester is assigned to user 2 directly, through
\* team 1 and through the pool; user 2 is on the roster of semester 2 only
\* and user 3 is on the roster of semester 1, so the reader was user 2.
C2_Witness ==
    /\ response.op = "get_dashboard"
    /\ response.user_role = MEMBER
    /\ response.semester_id = 1 /\ response.weeks = <<>>
    /\ semesters[1].is_active
    /\ roster = {<<2, 2>>, <<1, 3>>}
    /\ tasks[1].exists /\ tasks[1].event_id = 1
    /\ tasks[1].assigned_to = 2 /\ tasks[1].assigned_team_id = 1
    /\ <<1, 2>> \in task_assignments

\* C3: in the dashboard of a non-admin user on the active semester's
\* roster, a task under that semester appears exactly when it is assigned
\* to the user directly, or the user has a team and the task is assigned to
\* that team, or a pool row links the task to the user; in an admin's
\* dashboard every task under the active semester appears.
C3_VisibleIff ==
    [][\A u \in UserIds, s \in SemIds :
          (/\ response'.op = "get_dashboard"
           /\ get_dashboard(u)
           /\ semesters[s].exists /\ semesters[s].is_active)
          => /\ (User(u).role /= ADMIN /\ <<s, u>> \in roster)
                => \A t \in TasksUnder(s) :
                      t \in TasksShown(response')
                         <=> \/ tasks[t].assigned_to = u
                             \/ /\ User(u).team_id /= None
                                /\ tasks[t].assigned_team_id = User(u).team_id
                             \/ <<t, u>> \in task_assignments
             /\ User(u).role = ADMIN
                => \A t \in TasksUnder(s) : t \in TasksShown(response')]_vars

\* A member on the roster of the active semester 1 read a dashboard whose
\* week has no event to show, although task 1 of that semester exists with
\* no direct assignee, no team and a pool row for user 2: the reader is
\* user 3, the member without a team, the only one on the roster.
C3_Witness ==
    /\ response.op = "get_dashboard"
    /\ response.user_role = MEMBER
    /\ response.semester_id = 1
    /\ Len(response.weeks) = 1 /\ response.weeks[1].events = {}
    /\ semesters[1].is_active
    /\ roster = {<<1, 3>>}
    /\ tasks[1].exists /\ tasks[1].event_id = 1
    /\ tasks[1].assigned_to = None /\ tasks[1].assigned_team_id = None
    /\ task_assignments = {<<1, 2>>}

----------------------------------------------------------------------------
(* Properties of the semester handlers *)

\* C10: after any sequence of create_semester, update_semester,
\* delete_semester and import_data requests run one at a time, at most one
\* semester has is_active = TRUE; and in the state right after a
\* create_semester or update_semester request with is_active = TRUE, the one
\* active semester is the semester that request created or updated.
C10_SingleActiveSemester ==
    /\ [](Cardinality({i \in SemIds : semesters[i].exists
                                      /\ semesters[i].is_active}) <= 1)
    /\ [][/\ (\E u \in UserIds, n \in SemNames : create_semester(u, n, TRUE))
             => \E new \in SemIds :
                   /\ ~semesters[new].exists
                   /\ \A i \in SemIds :
                         (semesters'[i].exists /\ semesters'[i].is_active)
                            <=> i = new
          /\ \A id \in SemIds :
                (/\ response'.op = "update_semester"
                 /\ response'.code = 200
                 /\ \E u \in UserIds, d \in UpdateDicts :
                       /\ "is_active" \in DOMAIN d
                       /\ d.is_active
                       /\ update_semester(u, id, d))
                => \A i \in SemIds :
                      (semesters'[i].exists /\ semesters'[i].is_active)
                         <=> i = id]_vars

\* An update_semester has answered and activated the second semester, an
\* imported one with its week and roster row, while the first exists and
\* is not active.
C10_Witness ==
    /\ response = Response("update_semester", 200)
    /\ semesters[1].exists /\ ~semesters[1].is_active
    /\ semesters[2].exists /\ semesters[2].is_active
    /\ <<2, 2>> \in roster
    /\ \E w \in WeekIds : weeks[w].exists /\ weeks[w].semester_id = 2

\* C11: when two requests that each activate a semester, on different
\* semesters, run concurrently, exactly one semester is active once both
\* have committed, in every interleaving of their statements.
C11_OneActiveAfterRace ==
    (/\ \A r \in RequestIds : /\ sessions[r].pc = "done"
                              /\ sessions[r].code = 200
                              /\ sessions[r].activates
     /\ sessions[1].semester_id /= sessions[2].semester_id)
    => Cardinality(ActiveSemesters(semesters)) = 1

----------------------------------------------------------------------------
(* Properties of the template handlers *)

\* The teams whose name equals a name case-insensitively.
TeamsNamed(name) ==
    {i \in DOMAIN teams : teams[i].exists
                          /\ LowerName(teams[i].name) = LowerName(name)}

\* The team names of a template's stubs that no team carries.
MissingByName(template) ==
    {template[i] : i \in {j \in 1..Len(template) :
                             /\ template[j] /= NoName
                             /\ TeamsNamed(template[j]) = {}}}

RECURSIVE FlatStubs(_)
FlatStubs(entries) ==
    IF entries = <<>> THEN <<>>
    ELSE (IF Head(entries) = NoTemplate THEN <<>> ELSE Head(entries))
         \o FlatStubs(Tail(entries))

----------------------------------------------------------------------------
(* Properties of the reminder job *)

\* The positions of the outbox that hold a reminder for a task.
Reminders(task_id) ==
    {i \in 1..Len(outbox) : outbox[i].task_id = task_id}

\* C15: over any sequence of runs of check_auto_reminders, including runs
\* that overlap and a run that aborts after a send, the automatic reminder
\* of one task is never sent twice.
C15_SentAtMostOnce ==
    \A t \in 1..MaxRemindTasks : Cardinality(Reminders(t)) <= 1

\* C16: check_auto_reminders sends no reminder for a task whose stored
\* status is DONE or CANNOT_DO at the moment of the send, also when a
\* handler marks the task between the scan and the send for that task.
C16_NoReminderForResolved ==
    \A i \in 1..Len(outbox) : outbox[i].status \notin {DONE, CANNOT_DO}

\* A task the scan finds and for which a recipient resolves.
DueWithRecipient(t) == t \in DueTasks(now) /\ DiscordIds(t) /= {}

----------------------------------------------------------------------------
(* Properties of the week handlers *)

\* C19: after any sequence of create_week, update_week and import_data
\* requests no two weeks of one semester carry the same week_number.
C19_UniqueWeekNumbers ==
    \A w1, w2 \in WeekIds :
        (/\ w1 /= w2
         /\ weeks[w1].exists /\ weeks[w2].exists
         /\ weeks[w1].semester_id = weeks[w2].semester_id)
        => weeks[w1].week_number /= weeks[w2].week_number

----------------------------------------------------------------------------
(* Properties of the roster handlers *)

\* C20: an add_to_roster or add_all_to_roster request on a semester that
\* exists succeeds, also when its user_ids list repeats an id; it adds a
\* roster row for exactly the listed users that had none, counts the others
\* as skipped, and added + skipped is the number of ids processed.
C20_RosterAddIsIdempotent ==
    [][/\ response'.op = "add_to_roster" =>
           \A s \in SemIds, l \in RosterInputLists :
               (Exists(semesters, s) /\ add_to_roster(1, s, l))
               => /\ response'.code = 200
                  /\ response'.added + response'.skipped = Len(l)
                  /\ response'.added = Cardinality(roster' \ roster)
                  /\ roster' = roster \cup
                         {<<s, u>> : u \in SeqToSet(l) \cap UserIds}
       /\ response'.op = "add_all_to_roster" =>
           \A s \in SemIds :
               (Exists(semesters, s) /\ add_all_to_roster(1, s))
               => /\ response'.code = 200
                  /\ response'.added + response'.skipped = 2
                  /\ response'.added = Cardinality(roster' \ roster)
                  /\ roster' = roster \cup {<<s, 2>>, <<s, 3>>}]_vars

----------------------------------------------------------------------------
(* Further properties of the task handlers *)

\* C23: every step that changes the status of a task (mark_task_done,
\* mark_task_cannot_do, undo_task_status, the reset inside update_task)
\* appends an audit record for that task in the same commit.
C23_StatusChangeAudited ==
    [][\A t \in TaskIds :
          (/\ Exists(tasks, t) /\ Exists(tasks', t)
           /\ tasks'[t].status /= tasks[t].status)
          => /\ Len(audit') = Len(audit) + 1
             /\ audit'[Len(audit')].entity_type = "task"
             /\ audit'[Len(audit')].entity_id = t]_vars

\* C28: in every state the task endpoints reach, a task's fields agree
\* with its status: PENDING has neither completed_by nor cannot_do_reason,
\* DONE has completed_by and no cannot_do_reason, CANNOT_DO has both.
C28_FieldsAgreeWithStatus ==
    \A t \in TaskIds :
        tasks[t].exists =>
            /\ tasks[t].status = PENDING
                  => /\ tasks[t].completed_by = None
                     /\ tasks[t].cannot_do_reason = NoText
            /\ tasks[t].status = DONE
                  => /\ tasks[t].completed_by /= None
                     /\ tasks[t].cannot_do_reason = NoText
            /\ tasks[t].status = CANNOT_DO
                  => /\ tasks[t].completed_by /= None
                     /\ tasks[t].cannot_do_reason /= NoText

----------------------------------------------------------------------------
(* Import *)

\* C21: an import_data request persists each semester of its batch with its
\* whole tree (semester, roster rows, week, event, task, pool rows) or not
\* at all: the rows the request adds all hang under the semesters it adds,
\* each added semester carries the complete tree of a failure-free entry of
\* the batch, each entry is either persisted or reported in errors, an entry
\* that is not reported is persisted whatever happened to the entries before
\* it, and no row that existed before is touched.
C21_SemesterImportedWholeOrNot ==
    [][(response'.op = "import_data" /\ response'.code = 200) =>
        LET batch == sessions'[1].data
            added == {s \in SemIds : semesters'[s].exists /\ ~semesters[s].exists}
            weeksOf(s) == {w \in WeekIds : /\ weeks'[w].exists
                                           /\ weeks'[w].semester_id = s}
            eventsOf(s) == {e \in EventIds : /\ events'[e].exists
                                             /\ events'[e].week_id \in weeksOf(s)}
            tasksOf(s) == {t \in TaskIds : /\ tasks'[t].exists
                                           /\ tasks'[t].event_id \in eventsOf(s)}
            Whole(s, d) ==
                /\ semesters'[s].name = d.name
                /\ {u \in UserIds : <<s, u>> \in roster'} =
                       SeqToSet(d.roster_usernames) \ {None}
                /\ Cardinality(weeksOf(s)) = Len(d.weeks)
                /\ d.weeks[1].dates_ok
                /\ Cardinality(eventsOf(s)) = Len(d.weeks[1].events)
                /\ d.weeks[1].events /= <<>> =>
                       /\ d.weeks[1].events[1].datetime_ok
                       /\ Cardinality(tasksOf(s)) = Len(d.weeks[1].events[1].tasks)
                       /\ \A k \in 1..Len(d.weeks[1].events[1].tasks) :
                              /\ d.weeks[1].events[1].tasks[k].task_type_ok
                              /\ \A t \in tasksOf(s) :
                                     {u \in UserIds : <<t, u>> \in task_assignments'} =
                                         SeqToSet(d.weeks[1].events[1].tasks[k]
                                                      .assigned_pool_usernames)
        IN  /\ \A s \in SemIds : semesters[s].exists => semesters'[s] = semesters[s]
            /\ \A w \in WeekIds :
                   IF weeks[w].exists THEN weeks'[w] = weeks[w]
                   ELSE weeks'[w].exists => weeks'[w].semester_id \in added
            /\ \A e \in EventIds :
                   IF events[e].exists THEN events'[e] = events[e]
                   ELSE events'[e].exists =>
                            \E s \in added : e \in eventsOf(s)
            /\ \A t \in TaskIds :
                   IF tasks[t].exists THEN tasks'[t] = tasks[t]
                   ELSE tasks'[t].exists => \E s \in added : t \in tasksOf(s)
            /\ roster \subseteq roster'
            /\ \A r \in roster' \ roster : r[1] \in added
            /\ task_assignments \subseteq task_assignments'
            /\ \A a \in task_assignments' \ task_assignments :
                   \E s \in added : a[1] \in tasksOf(s)
            /\ \A s \in added : \E k \in 1..Len(batch) : Whole(s, batch[k])
            /\ Cardinality(added) + Len(response'.errors) = Len(batch)
            /\ \A k \in 1..Len(batch) :
                   (\A i \in 1..Len(response'.errors) :
                        response'.errors[i].name /= batch[k].name)
                   => \E s \in added : Whole(s, batch[k])]_vars

\* The first semester of the batch failed after its week had been added,
\* the second one, which lists an event with a task, is in the database.
C21_Witness ==
    /\ response.op = "import_data"
    /\ Len(sessions) = 1 /\ Len(sessions[1].data) = 2
    /\ sessions[1].data[1].weeks[1].events /= <<>>
    /\ ~sessions[1].data[1].weeks[1].events[1].datetime_ok
    /\ response.errors = <<[name |-> sessions[1].data[1].name, error |-> "raised"]>>
    /\ \E s \in SemIds :
           /\ semesters[s].exists
           /\ semesters[s].name = sessions[1].data[2].name
    /\ \E t \in TaskIds : tasks[t].exists
    /\ \A s \in SemIds :
           semesters[s].exists => semesters[s].name /= sessions[1].data[1].name

----------------------------------------------------------------------------
(* Admin alerts *)

\* C22: what mark_task_cannot_do writes (status, reason, completed_by, the
\* audit record) is committed, and the request answered, in the step that
\* queues the admin alert; no step of the alert (its start, a POST, a
\* sleep), whatever its outcome and whatever the settings, changes a table
\* or the response.
C22_AlertAfterCommit ==
    [][/\ Len(alerts') > Len(alerts) =>
              LET a == alerts'[Len(alerts')]
              IN  /\ tasks'[a.task].status = CANNOT_DO
                  /\ tasks'[a.task].cannot_do_reason = a.reason
                  /\ tasks'[a.task].completed_by = a.user
                  /\ Len(audit') = Len(audit) + 1
                  /\ audit'[Len(audit')].action = "TASK_CANNOT_DO"
                  /\ response' = Response("mark_task_cannot_do", 200)
       /\ (sessions' /= sessions \/ Len(alerts') < Len(alerts)) =>
              UNCHANGED <<semVars, taskVars, audit, response>>]_vars

\* An alert has failed on each of its three attempts, and the task is
\* flagged with its audit record and a 200.
C22_Witness ==
    /\ sessions.pc = "returned" /\ sessions.result = FALSE
    /\ Len(sessions.calls) = 5
    /\ tasks[1].status = CANNOT_DO
    /\ response = Response("mark_task_cannot_do", 200)
    /\ Len(audit) = 1

----------------------------------------------------------------------------
(* Comments and task lists *)

\* C26: a user who is not an admin reads, posts or deletes a comment on a
\* task only while the task is assigned to them directly, to their team or
\* through a pool row, and deletes only a comment they wrote; an admin
\* reads the comments of every task, posts on every task and deletes every
\* comment.
C26_CommentsGatedByView ==
    [][\A u \in UserIds, t \in TaskIds :
          LET viewable == \/ tasks[t].assigned_to = u
                          \/ /\ User(u).team_id /= None
                             /\ tasks[t].assigned_team_id = User(u).team_id
                          \/ <<t, u>> \in task_assignments
          IN  /\ (/\ response'.op = "get_comments" /\ response'.code = 200
                  /\ get_comments(u, t) /\ User(u).role /= ADMIN)
                 => viewable
              /\ \A c \in DOMAIN task_comments :
                     (/\ response'.op = "add_comment"
                      /\ ~task_comments[c].exists /\ task_comments'[c].exists
                      /\ task_comments'[c].user_id = u
                      /\ task_comments'[c].task_id = t
                      /\ User(u).role /= ADMIN)
                     => viewable
              /\ \A c \in DOMAIN task_comments :
                     (/\ response'.op = "delete_comment"
                      /\ delete_comment(u, t, c)
                      /\ task_comments[c].exists /\ ~task_comments'[c].exists
                      /\ User(u).role /= ADMIN)
                     => viewable /\ task_comments[c].user_id = u
              /\ (User(u).role = ADMIN /\ tasks[t].exists) =>
                     /\ get_comments(u, t) => response'.code = 200
                     /\ \A c \in DOMAIN task_comments :
                            (/\ task_comments[c].exists
                             /\ task_comments[c].task_id = t
                             /\ delete_comment(u, t, c))
                            => ~task_comments'[c].exists
                     /\ (/\ NextId(task_comments) \in DOMAIN task_comments
                         /\ add_comment(u, t, <<"a">>))
                        => task_comments'[NextId(task_comments)].exists]_vars

\* C29: a user who is not an admin receives from list_tasks and from
\* get_comments only data of tasks that are assigned to them directly, to
\* their team or through a pool row, so that a task assigned to others
\* makes no difference to the answer.
C29_OnlyAssignedTasksShown ==
    [][\A u \in UserIds :
          User(u).role /= ADMIN =>
              LET viewable(t) ==
                      \/ tasks[t].assigned_to = u
                      \/ /\ User(u).team_id /= None
                         /\ tasks[t].assigned_team_id = User(u).team_id
                      \/ <<t, u>> \in task_assignments
              IN  /\ \A e \in EventIds :
                         (/\ response'.op = "list_tasks" /\ response'.code = 200
                          /\ list_tasks(u, e))
                         => \A t \in response'.tasks : viewable(t)
                  /\ \A t \in TaskIds :
                         (/\ response'.op = "get_comments" /\ response'.code = 200
                          /\ get_comments(u, t))
                         => viewable(t)]_vars

----------------------------------------------------------------------------
(* The event template catalog *)

\* C25: for a built-in template id X, get_event_template_by_id(X) returns
\* the persisted override of X while one exists and the built-in entry when
\* none exists (as after a reset); get_event_templates lists exactly one
\* entry of id X, the same one; and reset_event_template(X) on an overridden
\* X removes the override row.
C25_OverrideReplacesBuiltIn ==
    [][\A k \in 1..Len(DEFAULT_EVENT_TEMPLATES) :
          LET X == DEFAULT_EVENT_TEMPLATES[k].id
              rows == {i \in DOMAIN event_templates.rows :
                          /\ event_templates.rows[i].exists
                          /\ event_templates.rows[i].overrides_default_id = X}
              Expected(t) ==
                  IF rows = {} THEN t = DEFAULT_EVENT_TEMPLATES[k]
                  ELSE \E i \in rows :
                          /\ t.id = X
                          /\ t.name = event_templates.rows[i].name
                          /\ t.tasks = event_templates.rows[i].tasks
                          /\ t.is_modified
          IN  /\ (/\ response'.op = "get_event_template_by_id"
                  /\ get_event_template_by_id(X))
                 => /\ Len(response'.template) = 1
                    /\ Expected(response'.template[1])
              /\ (response'.op = "get_event_templates" /\ get_event_templates(1))
                 => /\ response'.code = 200
                    /\ Cardinality({j \in 1..Len(response'.templates) :
                                       response'.templates[j].id = X}) = 1
                    /\ \A j \in 1..Len(response'.templates) :
                           response'.templates[j].id = X
                               => Expected(response'.templates[j])
              /\ (/\ response'.op = "reset_event_template"
                  /\ reset_event_template(1, X)
                  /\ rows /= {})
                 => \A i \in rows : ~event_templates'.rows[i].exists]_vars

----------------------------------------------------------------------------
(* Events and weeks *)

----------------------------------------------------------------------------
(* mark_task_done and mark_task_cannot_do, concurrently *)

\* C24: when mark_task_done and mark_task_cannot_do run concurrently on the
\* same task (both loaded the same row) and both have committed, the task's
\* row is the row one of the two serial orders of the calls leaves.
C24_ConcurrentMarksSerial ==
    \A r \in RequestIds, o \in RequestIds :
        (/\ sessions[r].pc = "done" /\ sessions[o].pc = "done"
         /\ sessions[r].code = 200 /\ sessions[o].code = 200
         /\ sessions[r].op = "mark_task_done"
         /\ sessions[o].op = "mark_task_cannot_do"
         /\ sessions[r].task_id = sessions[o].task_id
         /\ sessions[r].task = sessions[o].task)
        => LET loaded == sessions[r].task
               done == MarkAssignments("mark_task_done", sessions[r].user_id,
                                       sessions[r].reason)
               cannot == MarkAssignments("mark_task_cannot_do",
                                         sessions[o].user_id, sessions[o].reason)
           IN  tasks[sessions[r].task_id] \in
                   {Marked(Marked(loaded, done), cannot),
                    Marked(Marked(loaded, cannot), done)}

====
